---- MODULE Spec2Model ----
(***************************************************************************)
(* Model of the flight-data bulk importer, cli-python/import_flights.py:   *)
(* FlightLoader.import_files and the operations it is built from, run      *)
(* against a document store that answers every call with one of the        *)
(* outcomes the client can report.                                         *)
(*                                                                         *)
(* Python strings are sequences of one-character strings; Python values    *)
(* are tagged records (None, str, int, bool), so that a value of one type  *)
(* is never equal to a value of another.                                   *)
(***************************************************************************)
EXTENDS Integers, Sequences, FiniteSets, TLC

\* ------------------------------------------------------------------------
\* Bounds of the model
\* ------------------------------------------------------------------------
MaxFiles == 2
MaxRows == 2
MaxBatch == 2

\* ------------------------------------------------------------------------
\* Python values
\* ------------------------------------------------------------------------
None == [t |-> "none"]
VStr(s) == [t |-> "str", s |-> s]
VInt(i) == [t |-> "int", i |-> i]
VBool(b) == [t |-> "bool", b |-> b]
VDict(d) == [t |-> "dict", d |-> d]
\* an exception leaving a function instead of a value
Raised(e) == [t |-> "raise", exc |-> e]

IsNone(v) == v.t = "none"
IsRaised(v) == v.t = "raise"
\* truthiness of an Optional[str]: None and "" are falsy
Truthy(v) == v.t = "str" /\ Len(v.s) > 0

\* ------------------------------------------------------------------------
\* Characters and strings
\* ------------------------------------------------------------------------
Digits == <<"0", "1", "2", "3", "4", "5", "6", "7", "8", "9">>
UpperAlpha == <<"A", "B", "C", "D", "E", "F", "G", "H", "I", "J", "K", "L", "M",
                "N", "O", "P", "Q", "R", "S", "T", "U", "V", "W", "X", "Y", "Z">>
LowerAlpha == <<"a", "b", "c", "d", "e", "f", "g", "h", "i", "j", "k", "l", "m",
                "n", "o", "p", "q", "r", "s", "t", "u", "v", "w", "x", "y", "z">>
Whitespace == {" ", "\t", "\n", "\r"}

IsDigit(c) == \E i \in 1..Len(Digits) : Digits[i] = c
DigitVal(c) == (CHOOSE i \in 1..Len(Digits) : Digits[i] = c) - 1
AllDigits(s) == \A i \in 1..Len(s) : IsDigit(s[i])

LowerChar(c) ==
    IF \E i \in 1..Len(UpperAlpha) : UpperAlpha[i] = c
    THEN LowerAlpha[CHOOSE i \in 1..Len(UpperAlpha) : UpperAlpha[i] = c]
    ELSE c
UpperChar(c) ==
    IF \E i \in 1..Len(LowerAlpha) : LowerAlpha[i] = c
    THEN UpperAlpha[CHOOSE i \in 1..Len(LowerAlpha) : LowerAlpha[i] = c]
    ELSE c
\* str.lower(), str.upper()
Lower(s) == [i \in 1..Len(s) |-> LowerChar(s[i])]
Upper(s) == [i \in 1..Len(s) |-> UpperChar(s[i])]

\* str.strip(): whitespace removed at both ends
RECURSIVE LStrip(_)
LStrip(s) == IF Len(s) > 0 /\ s[1] \in Whitespace THEN LStrip(Tail(s)) ELSE s
RECURSIVE RStrip(_)
RStrip(s) ==
    IF Len(s) > 0 /\ s[Len(s)] \in Whitespace
    THEN RStrip(SubSeq(s, 1, Len(s) - 1))
    ELSE s
Strip(s) == RStrip(LStrip(s))

EndsWith(s, suffix) ==
    /\ Len(s) >= Len(suffix)
    /\ SubSeq(s, Len(s) - Len(suffix) + 1, Len(s)) = suffix
DropLast(s, n) == SubSeq(s, 1, Len(s) - n)
LastN(s, n) == SubSeq(s, Len(s) - n + 1, Len(s))

\* first position of character c in s, 0 when it does not occur
IndexOf(s, c) ==
    IF \E i \in 1..Len(s) : s[i] = c
    THEN CHOOSE i \in 1..Len(s) : s[i] = c /\ \A j \in 1..(i - 1) : s[j] # c
    ELSE 0

RECURSIVE DigitsValue(_)
DigitsValue(s) ==
    IF Len(s) = 0 THEN 0
    ELSE 10 * DigitsValue(DropLast(s, 1)) + DigitVal(s[Len(s)])

RECURSIVE Pow10(_)
Pow10(n) == IF n <= 0 THEN 1 ELSE 10 * Pow10(n - 1)

\* ------------------------------------------------------------------------
\* present, to_float, to_integer, to_boolean
\* ------------------------------------------------------------------------
\* present(value): None stays None, text is stripped, "" becomes None
NoneIfEmpty(text) == IF Len(text) = 0 THEN None ELSE VStr(text)
present(value) == IF IsNone(value) THEN None ELSE NoneIfEmpty(Strip(value.s))

\* float(text) of Python for a stripped text: a float is
\*   [k |-> "fin", neg, mant, exp10]   the number (-1)^neg * mant * 10^exp10
\*   [k |-> "inf", neg], [k |-> "nan"] the non-finite values
\*   [k |-> "error"]                   float() raised ValueError
FloatError == [k |-> "error"]
Unsigned(s) == IF Len(s) > 0 /\ s[1] \in {"+", "-"} THEN Tail(s) ELSE s
IsNegative(s) == Len(s) > 0 /\ s[1] = "-"

\* the decimal part "ddd", "ddd.", "ddd.ddd" or ".ddd", given as the digits
\* before and after the point
DecimalOk(ip, fp) == AllDigits(ip) /\ AllDigits(fp) /\ Len(ip) + Len(fp) > 0
ExponentOk(x) == Len(Unsigned(x)) > 0 /\ AllDigits(Unsigned(x))
ExponentValue(x) ==
    IF IsNegative(x) THEN 0 - DigitsValue(Unsigned(x)) ELSE DigitsValue(Unsigned(x))

\* the float of a decimal literal; one beyond the range of a double becomes
\* an infinity
FloatOfDigits(neg, digits, exp10) ==
    IF DigitsValue(digits) # 0 /\ Len(digits) + exp10 > 309
    THEN [k |-> "inf", neg |-> neg]
    ELSE [k |-> "fin", neg |-> neg, mant |-> DigitsValue(digits), exp10 |-> exp10]
FloatOfParts(neg, ip, fp, x, hasExp) ==
    IF ~DecimalOk(ip, fp) \/ (hasExp /\ ~ExponentOk(x)) THEN FloatError
    ELSE FloatOfDigits(neg, ip \o fp, (IF hasExp THEN ExponentValue(x) ELSE 0) - Len(fp))
FloatOfMantissa(neg, m, dot, x, hasExp) ==
    FloatOfParts(neg, IF dot = 0 THEN m ELSE SubSeq(m, 1, dot - 1),
                 IF dot = 0 THEN <<>> ELSE SubSeq(m, dot + 1, Len(m)), x, hasExp)
FloatOfLiteral(neg, m, x, hasExp) == FloatOfMantissa(neg, m, IndexOf(m, "."), x, hasExp)
FloatOfBody(neg, body, low, epos) ==
    IF low \in {<<"i", "n", "f">>, <<"i", "n", "f", "i", "n", "i", "t", "y">>}
    THEN [k |-> "inf", neg |-> neg]
    ELSE IF low = <<"n", "a", "n">> THEN [k |-> "nan"]
    ELSE FloatOfLiteral(neg, IF epos = 0 THEN body ELSE SubSeq(body, 1, epos - 1),
                        IF epos = 0 THEN <<>> ELSE SubSeq(body, epos + 1, Len(body)),
                        epos # 0)
FloatOfUnsigned(neg, body) == FloatOfBody(neg, body, Lower(body), IndexOf(Lower(body), "e"))
ParseFloat(text) == FloatOfUnsigned(IsNegative(text), Unsigned(text))

\* the except clause of to_float: ValueError becomes None
NoneIfError(number) == IF number = FloatError THEN [k |-> "none"] ELSE number
ParseOptional(text) == IF IsNone(text) THEN [k |-> "none"] ELSE NoneIfError(ParseFloat(text.s))
\* to_float(value): None when the value is absent or float() raises ValueError
to_float(value) == ParseOptional(present(value))

\* round(number) of a finite float: to the nearest integer, ties to even
RoundTies(q, r, d) ==
    IF 2 * r > d THEN q + 1
    ELSE IF 2 * r = d THEN q + (q % 2)
    ELSE q
RoundScaled(mant, d) == RoundTies(mant \div d, mant % d, d)
RoundMagnitude(f) ==
    IF f.mant = 0 THEN 0
    ELSE IF f.exp10 >= 0 THEN f.mant * Pow10(f.exp10)
    ELSE RoundScaled(f.mant, Pow10(0 - f.exp10))
RoundHalfEven(f) == IF f.neg THEN 0 - RoundMagnitude(f) ELSE RoundMagnitude(f)

\* int(round(number)): round() raises OverflowError for an infinity and
\* ValueError for a NaN
IntOfRound(number) ==
    IF number.k = "none" THEN None
    ELSE IF number.k = "inf" THEN Raised("OverflowError")
    ELSE IF number.k = "nan" THEN Raised("ValueError")
    ELSE VInt(RoundHalfEven(number))
\* to_integer(value): it catches neither exception of round()
to_integer(value) == IntOfRound(to_float(value))

\* numeric > 0: false for a NaN, for zero and for every negative value;
\* None when float(text) raised ValueError
IsPositive(numeric) ==
    IF numeric = FloatError THEN None
    ELSE IF numeric.k = "nan" THEN VBool(FALSE)
    ELSE IF numeric.k = "inf" THEN VBool(~numeric.neg)
    ELSE VBool(~numeric.neg /\ numeric.mant > 0)
\* a to_boolean that compares the words without lowering the text
BoolOfTextCaseSensitive(text, lowered) ==
    IF text \in {<<"t", "r", "u", "e">>, <<"t">>, <<"y", "e", "s">>, <<"y">>}
    THEN VBool(TRUE)
    ELSE IF text \in {<<"f", "a", "l", "s", "e">>, <<"f">>, <<"n", "o">>, <<"n">>}
    THEN VBool(FALSE)
    ELSE IsPositive(ParseFloat(text))
BoolOfText(text, lowered) ==
    IF lowered \in {<<"t", "r", "u", "e">>, <<"t">>, <<"y", "e", "s">>, <<"y">>}
    THEN VBool(TRUE)
    ELSE IF lowered \in {<<"f", "a", "l", "s", "e">>, <<"f">>, <<"n", "o">>, <<"n">>}
    THEN VBool(FALSE)
    ELSE IsPositive(ParseFloat(text))
BoolOfPresent(text) == IF IsNone(text) THEN None ELSE BoolOfText(text.s, Lower(text.s))
\* to_boolean(value)
to_boolean(value) == BoolOfPresent(present(value))

\* ------------------------------------------------------------------------
\* Index routing
\* ------------------------------------------------------------------------
\* self._index, the base name given by --index
index_base == <<"f", "l", "i", "g", "h", "t", "s">>

\* one application of re.sub(r"\.(gz|csv|zip)$", "", basename, IGNORECASE)
StripOneSuffix(basename) ==
    IF EndsWith(Lower(basename), <<".", "g", "z">>) THEN DropLast(basename, 3)
    ELSE IF EndsWith(Lower(basename), <<".", "c", "s", "v">>) THEN DropLast(basename, 4)
    ELSE IF EndsWith(Lower(basename), <<".", "z", "i", "p">>) THEN DropLast(basename, 4)
    ELSE basename
\* the loop that strips suffixes until nothing changes
RECURSIVE StripSuffixes(_)
StripSuffixes(basename) ==
    IF StripOneSuffix(basename) = basename THEN basename
    ELSE StripSuffixes(StripOneSuffix(basename))

\* re.search(r"-(\d{4})-(\d{2})$", basename)
MatchYearMonth(b) ==
    /\ Len(b) >= 8
    /\ LastN(b, 8)[1] = "-"
    /\ AllDigits(SubSeq(LastN(b, 8), 2, 5))
    /\ LastN(b, 8)[6] = "-"
    /\ AllDigits(SubSeq(LastN(b, 8), 7, 8))
\* re.search(r"-(\d{4})$", basename)
MatchYear(b) ==
    /\ Len(b) >= 5
    /\ LastN(b, 5)[1] = "-"
    /\ AllDigits(SubSeq(LastN(b, 5), 2, 5))

\* _extract_year_month_from_filename(file_path): <<year, month>>
extract_year_month_from_filename(name) ==
    LET basename == StripSuffixes(name)
    IN  IF MatchYearMonth(basename)
        THEN <<VStr(SubSeq(LastN(basename, 8), 2, 5)), VStr(SubSeq(LastN(basename, 8), 7, 8))>>
        ELSE IF MatchYear(basename)
        THEN <<VStr(SubSeq(LastN(basename, 5), 2, 5)), None>>
        ELSE <<None, None>>

\* re.match(r"^(\d{4})-(\d{2})-\d{2}", timestamp)
MatchDate(ts) ==
    /\ Len(ts) >= 10
    /\ AllDigits(SubSeq(ts, 1, 4))
    /\ ts[5] = "-"
    /\ AllDigits(SubSeq(ts, 6, 7))
    /\ ts[8] = "-"
    /\ AllDigits(SubSeq(ts, 9, 10))

\* an _extract_index_name that falls back to the base index
extract_index_name_fallback(timestamp, year, month) ==
    IF Truthy(year) /\ Truthy(month)
    THEN VStr(index_base \o <<"-">> \o year.s \o <<"-">> \o month.s)
    ELSE IF Truthy(year)
    THEN VStr(index_base \o <<"-">> \o year.s)
    ELSE IF Truthy(timestamp) /\ MatchDate(timestamp.s)
    THEN VStr(index_base \o <<"-">> \o SubSeq(timestamp.s, 1, 4))
    ELSE VStr(index_base)

\* an _extract_index_name that prefers the timestamp to the file name
extract_index_name_by_timestamp(timestamp, year, month) ==
    IF Truthy(timestamp) /\ MatchDate(timestamp.s)
    THEN VStr(index_base \o <<"-">> \o SubSeq(timestamp.s, 1, 4))
    ELSE IF Truthy(year) /\ Truthy(month)
    THEN VStr(index_base \o <<"-">> \o year.s \o <<"-">> \o month.s)
    ELSE IF Truthy(year)
    THEN VStr(index_base \o <<"-">> \o year.s)
    ELSE None

\* _extract_index_name(timestamp, file_year=, file_month=): the name or None
extract_index_name(timestamp, year, month) ==
    IF Truthy(year) /\ Truthy(month)
    THEN VStr(index_base \o <<"-">> \o year.s \o <<"-">> \o month.s)
    ELSE IF Truthy(year)
    THEN VStr(index_base \o <<"-">> \o year.s)
    ELSE IF ~Truthy(timestamp) THEN None
    ELSE IF MatchDate(timestamp.s)
    THEN VStr(index_base \o <<"-">> \o SubSeq(timestamp.s, 1, 4))
    ELSE None

\* ------------------------------------------------------------------------
\* Lookup tables and the row transformer
\* ------------------------------------------------------------------------
\* row.get(column)
Get(record, column) == IF column \in DOMAIN record THEN record[column] ELSE None

\* AirportLookup.lookup_coordinates(iata_code) over its table
CoordinatesAt(table, code) ==
    IF code \notin DOMAIN table THEN None
    ELSE VStr(table[code][1] \o <<",">> \o table[code][2])
\* a lookup that takes the code as it is written
lookup_coordinates_exact(table, iata_code) ==
    IF ~Truthy(iata_code) THEN None ELSE CoordinatesAt(table, iata_code.s)
lookup_coordinates(table, iata_code) ==
    IF ~Truthy(iata_code) THEN None ELSE CoordinatesAt(table, Upper(iata_code.s))

\* CancellationLookup.lookup_reason(code) over its table
lookup_reason(table, code) ==
    IF ~Truthy(code) THEN None
    ELSE IF Upper(code.s) \notin DOMAIN table THEN None
    ELSE VStr(table[Upper(code.s)])

\* the document keys filled by to_integer, each with its CSV column
IntegerFields ==
    << <<"CRSDepTimeLocal", "CRSDepTime">>, <<"DepDelayMin", "DepDelay">>,
       <<"TaxiOutMin", "TaxiOut">>, <<"TaxiInMin", "TaxiIn">>,
       <<"CRSArrTimeLocal", "CRSArrTime">>, <<"ArrDelayMin", "ArrDelay">>,
       <<"ActualElapsedTimeMin", "ActualElapsedTime">>, <<"AirTimeMin", "AirTime">>,
       <<"Flights", "Flights">>, <<"DistanceMiles", "Distance">>,
       <<"CarrierDelayMin", "CarrierDelay">>, <<"WeatherDelayMin", "WeatherDelay">>,
       <<"NASDelayMin", "NASDelay">>, <<"SecurityDelayMin", "SecurityDelay">>,
       <<"LateAircraftDelayMin", "LateAircraftDelay">> >>
IntegerKeys == {IntegerFields[i][1] : i \in 1..Len(IntegerFields)}
\* the keys _transform_row assigns without a condition (the value may be None)
AssignedKeys ==
    {"@timestamp", "Reporting_Airline", "Tail_Number", "Flight_Number", "Origin",
     "Dest", "Cancelled", "Diverted", "CancellationCode"} \cup IntegerKeys

\* present(row.get("@timestamp")) or present(row.get("FlightDate"))
FirstTruthy(first, second) == IF Truthy(first) THEN first ELSE second
RowTimestamp(record) ==
    FirstTruthy(present(Get(record, "@timestamp")), present(Get(record, "FlightDate")))

\* an f-string that leaves the destination out
FlightIdWithoutDest(flight_date, reporting_airline, flight_number, origin, dest) ==
    VStr(flight_date.s \o <<"_">> \o reporting_airline.s \o <<"_">> \o flight_number.s
         \o <<"_">> \o origin.s)

\* the f-string that builds FlightID
FlightIdOf(flight_date, reporting_airline, flight_number, origin, dest) ==
    VStr(flight_date.s \o <<"_">> \o reporting_airline.s \o <<"_">> \o flight_number.s
         \o <<"_">> \o origin.s \o <<"_">> \o dest.s)

\* the values _transform_row reads from the row through present()
TextFields(record) ==
    [timestamp |-> RowTimestamp(record),
     reporting_airline |-> present(Get(record, "Reporting_Airline")),
     flight_number |-> present(Get(record, "Flight_Number_Reporting_Airline")),
     origin |-> present(Get(record, "Origin")),
     dest |-> present(Get(record, "Dest")),
     tail_number |-> present(Get(record, "Tail_Number")),
     cancellation_code |-> present(Get(record, "CancellationCode"))]
\* the values it reads through to_integer, in the order of the calls
IntegerValues(record) ==
    [i \in 1..Len(IntegerFields) |-> to_integer(Get(record, IntegerFields[i][2]))]
\* the exception of the first call of to_integer that raised, else None
FirstRaised(values) ==
    IF \A i \in DOMAIN values : ~IsRaised(values[i]) THEN None
    ELSE values[CHOOSE i \in DOMAIN values :
                   IsRaised(values[i]) /\ \A j \in 1..(i - 1) : ~IsRaised(values[j])]
\* if flight_date and reporting_airline and flight_number and origin and dest
HasFlightId(f) ==
    /\ Truthy(f.timestamp) /\ Truthy(f.reporting_airline)
    /\ Truthy(f.flight_number) /\ Truthy(f.origin) /\ Truthy(f.dest)
\* the keys of the document: those assigned always and those assigned under
\* a condition
DocKeys(f, cancellation_reason, origin_location, dest_location) ==
    AssignedKeys
    \cup (IF HasFlightId(f) THEN {"FlightID"} ELSE {})
    \cup (IF Truthy(cancellation_reason) THEN {"CancellationReason"} ELSE {})
    \cup (IF Truthy(origin_location) THEN {"OriginLocation"} ELSE {})
    \cup (IF Truthy(dest_location) THEN {"DestLocation"} ELSE {})
BuildDoc(f, integers, cancelled, diverted, reason, origin_location, dest_location) ==
    [key \in DocKeys(f, reason, origin_location, dest_location) |->
        CASE key = "@timestamp" -> f.timestamp
          [] key = "FlightID" ->
                FlightIdOf(f.timestamp, f.reporting_airline, f.flight_number, f.origin,
                           f.dest)
          [] key = "Reporting_Airline" -> f.reporting_airline
          [] key = "Tail_Number" -> f.tail_number
          [] key = "Flight_Number" -> f.flight_number
          [] key = "Origin" -> f.origin
          [] key = "Dest" -> f.dest
          [] key = "Cancelled" -> cancelled
          [] key = "Diverted" -> diverted
          [] key = "CancellationCode" -> f.cancellation_code
          [] key = "CancellationReason" -> reason
          [] key = "OriginLocation" -> origin_location
          [] key = "DestLocation" -> dest_location
          [] OTHER -> integers[CHOOSE i \in DOMAIN integers : IntegerFields[i][1] = key]]
\* a _transform_row that removes the None values itself
DocOrRaisedFiltered(raised, built) ==
    IF IsNone(raised)
    THEN VDict([key \in {k \in DOMAIN built : ~IsNone(built[k])} |-> built[key]])
    ELSE raised

DocOrRaised(raised, built) == IF IsNone(raised) THEN VDict(built) ELSE raised
TransformFields(f, integers, cancelled, diverted, airport_table, cancellation_table) ==
    DocOrRaised(FirstRaised(integers),
                BuildDoc(f, integers, cancelled, diverted,
                         lookup_reason(cancellation_table, f.cancellation_code),
                         lookup_coordinates(airport_table, f.origin),
                         lookup_coordinates(airport_table, f.dest)))

\* _transform_row(row): the document, a dict from key to value, or the
\* exception that a call of to_integer let through
transform_row(record, airport_table, cancellation_table) ==
    TransformFields(TextFields(record), IntegerValues(record),
                    to_boolean(Get(record, "Cancelled")),
                    to_boolean(Get(record, "Diverted")),
                    airport_table, cancellation_table)

\* a row loop without the filter
DropNoneSkipped(d) == d

\* doc = {key: value for key, value in doc.items() if value is not None}
DropNone(d) == [key \in {k \in DOMAIN d : ~IsNone(d[k])} |-> d[key]]

\* ------------------------------------------------------------------------
\* Inputs: rows, files, lookup tables, the store before the run
\* ------------------------------------------------------------------------
\* a complete row: routed by its FlightDate to flights-2023 without a hint
RowValid ==
    ("FlightDate" :> VStr(<<"2", "0", "2", "3", "-", "0", "7", "-", "1", "5">>)) @@ ("Reporting_Airline" :> VStr(<<"A", "A">>))
    @@ ("Flight_Number_Reporting_Airline" :> VStr(<<"1", "2">>)) @@ ("Origin" :> VStr(<<"J", "F", "K">>))
    @@ ("Dest" :> VStr(<<" ", "L", "A", "X", " ">>)) @@ ("DepDelay" :> VStr(<<"1", "2", ".", "6">>))
    @@ ("Distance" :> VStr(<<"2", ".", "5">>)) @@ ("Cancelled" :> VStr(<<"n">>))
    @@ ("CancellationCode" :> VStr(<<>>))
\* @timestamp and FlightDate disagree, untrimmed lower-case codes, text in
\* a numeric column, no Dest
RowOther ==
    ("@timestamp" :> VStr(<<"2", "0", "2", "4", "-", "0", "1", "-", "0", "2", "T", "1", "0", ":", "0", "0">>)) @@ ("FlightDate" :> VStr(<<"2", "0", "2", "3", "-", "0", "7", "-", "1", "5">>))
    @@ ("Reporting_Airline" :> VStr(<<"A", "A">>)) @@ ("Origin" :> VStr(<<" ", "j", "f", "k", " ">>))
    @@ ("Dest" :> VStr(<<" ">>)) @@ ("DepDelay" :> VStr(<<"a", "b", "c">>))
    @@ ("Cancelled" :> VStr(<<"Y">>)) @@ ("Diverted" :> VStr(<<"m", "a", "y", "b", "e">>))
    @@ ("CancellationCode" :> VStr(<<"b">>))
\* a timestamp that is no YYYY-MM-DD date, empty Origin and Dest
RowBadDate ==
    ("FlightDate" :> VStr(<<"1", "5", "/", "0", "7", "/", "2", "0", "2", "3">>)) @@ ("Reporting_Airline" :> VStr(<<"A", "A">>))
    @@ ("Origin" :> VStr(<<>>)) @@ ("Dest" :> VStr(<<>>)) @@ ("Cancelled" :> VStr(<<"1">>))
\* every column blank, no @timestamp column at all
RowBlank ==
    ("FlightDate" :> VStr(<<>>)) @@ ("Origin" :> VStr(<<" ">>)) @@ ("Dest" :> VStr(<<>>))
    @@ ("DepDelay" :> VStr(<<>>)) @@ ("Cancelled" :> VStr(<<" ", " ">>))
\* a numeric column whose text parses to a non-finite float
RowInf ==
    ("FlightDate" :> VStr(<<"2", "0", "2", "3", "-", "0", "7", "-", "1", "5">>)) @@ ("Origin" :> VStr(<<"J", "F", "K">>))
    @@ ("DepDelay" :> VStr(<<"i", "n", "f">>))
Rows == {RowValid, RowOther, RowBadDate, RowBlank, RowInf}

\* a file of the list: its name and what the file system holds there
\*   regular     a readable CSV, gzip or zip with a CSV entry
\*   notfile     the path is missing or is not a regular file
\*   unreadable  opening or decompressing it raises
\*   nocsv       a zip archive without a .csv entry
NamePlain == <<"f", "l", "i", "g", "h", "t", "s", ".", "c", "s", "v">>
NameYear == <<"f", "l", "i", "g", "h", "t", "s", "-", "2", "0", "2", "4", ".", "C", "S", "V", ".", "g", "z">>
NameYearMonth == <<"f", "l", "i", "g", "h", "t", "s", "-", "2", "0", "2", "4", "-", "0", "3", ".", "z", "i", "p">>
FileSet ==
    {[name |-> NamePlain, kind |-> "regular"],
     [name |-> NameYearMonth, kind |-> "regular"],
     [name |-> NamePlain, kind |-> "notfile"],
     [name |-> NameYear, kind |-> "unreadable"],
     [name |-> NameYearMonth, kind |-> "nocsv"]}
FileLists == UNION {[1..n -> FileSet] : n \in 0..MaxFiles}

\* the lookup tables as the constructor leaves them: empty when the
\* reference file is missing, else keyed by upper-cased code
AirportTable ==
    (<<"J", "F", "K">> :> <<<<"4", "0", ".", "6">>, <<"-", "7", "3", ".", "7">>>>)
CancellationTable == (<<"B">> :> <<"W", "e", "a", "t", "h", "e", "r">>)

\* the indices the store holds before the run, each with its document count
Idx2023 == index_base \o <<"-", "2", "0", "2", "3">>
Idx2024 == index_base \o <<"-", "2", "0", "2", "4">>
Idx202403 == index_base \o <<"-", "2", "0", "2", "4", "-", "0", "3">>
\* the lookup tables a constructor call can leave behind
LookupChoices == {<<AirportTable, CancellationTable>>}

InitialStores == {(Idx2023 :> 1)}

\* what the line counter of one file reports: a failure (the command ends
\* with an error, or an exception), or the line count of wc: that of an
\* empty file, or that of a header and rows
LineCounts ==
    {[fail |-> TRUE, n |-> 0], [fail |-> FALSE, n |-> 0], [fail |-> FALSE, n |-> MaxRows + 1]}

Max(a, b) == IF a >= b THEN a ELSE b

\* ------------------------------------------------------------------------
\* State
\* ------------------------------------------------------------------------
VARIABLES
    files,            \* file_list of import_files
    batch_size_arg,   \* the batch_size given to the constructor
    batch_size,       \* self._batch_size
    airports,         \* self._airport_lookup._airports
    cancellations,    \* self._cancellation_lookup._cancellations
    total_records,    \* self._total_records
    loaded_records,   \* self._loaded_records
    ensured_indices,  \* self._ensured_indices
    pc,               \* where the run stands
    abort_reason,     \* the operation whose exception ended the run
    file_pos,         \* position in file_list of the file being imported
    file_year,        \* locals of _import_file, reset once they are dead
    file_month,
    index_buffers,    \* insertion-ordered: <<[index_name, lines, count], ...>>
    indexed_docs,
    processed_rows,
    row,              \* the row the loop read last
    doc,
    index_name,
    leftover_pos,     \* position of the end-of-file loop in index_buffers
    store,            \* the document store: index name -> document count
    calls,            \* the calls the last step made to the store client
    logged,           \* the warnings and summary the last step logged
    call_count,       \* <<operation, index>> -> calls made in the run so far
    acked_docs,       \* documents of the bulk requests answered without errors
    rows_read,        \* rows read in the run so far
    row_fates,        \* <<file, row>> -> what the row loop did with the row
    line_counts,      \* what _count_lines_fast returned, until the loop starts
    last_submitted,   \* index -> <<file, row>> of the last document sent to it
    submit_count,     \* <<file, row>> -> bulk requests that carried its document
    args              \* the flags of the command line that main() decides on

config == <<files, batch_size_arg, batch_size, airports, cancellations, args>>
counters == <<total_records, loaded_records>>
frame == <<file_year, file_month, index_buffers, indexed_docs, processed_rows,
           row, doc, index_name, leftover_pos>>
client == <<store, calls, call_count, acked_docs, last_submitted, submit_count>>
vars == <<config, counters, ensured_indices, pc, abort_reason, file_pos, frame,
          client, logged, rows_read, row_fates, line_counts>>

NoDoc == <<>>
NoRow == <<>>

\* self._batch_size = max(1, batch_size)
init_batch_size(b) == Max(1, b)

Init ==
    /\ files \in FileLists
    /\ batch_size_arg \in {0, MaxBatch}
    /\ batch_size = init_batch_size(batch_size_arg)
    /\ \E tables \in LookupChoices :
          /\ airports = tables[1]
          /\ cancellations = tables[2]
    /\ total_records = 0
    /\ loaded_records = 0
    /\ ensured_indices = {}
    /\ pc = "count"
    /\ abort_reason = "none"
    /\ file_pos = 0
    /\ file_year = None
    /\ file_month = None
    /\ index_buffers = <<>>
    /\ indexed_docs = 0
    /\ processed_rows = 0
    /\ row = NoRow
    /\ doc = NoDoc
    /\ index_name = None
    /\ leftover_pos = 0
    /\ store \in InitialStores
    /\ calls = <<>>
    /\ logged = <<>>
    /\ call_count = <<>>
    /\ acked_docs = 0
    /\ rows_read = 0
    /\ row_fates = <<>>
    /\ line_counts = <<>>
    /\ last_submitted = <<>>
    /\ submit_count = <<>>
    /\ args = [status |-> FALSE, delete_index |-> FALSE, file |-> FALSE, all |-> TRUE,
               glob |-> FALSE, config |-> "ok", mapping |-> "ok"]

\* the locals of _import_file once the call has returned
FrameDropped ==
    /\ file_year' = None
    /\ file_month' = None
    /\ index_buffers' = <<>>
    /\ indexed_docs' = 0
    /\ processed_rows' = 0
    /\ row' = NoRow
    /\ doc' = NoDoc
    /\ index_name' = None
    /\ leftover_pos' = 0

\* an import_files that catches the exception and goes on to the next file
AbortCaught(reason) ==
    /\ pc' = "next_file"
    /\ abort_reason' = reason

\* an exception propagates out of import_files: nothing catches it there
Abort(reason) ==
    /\ pc' = "aborted"
    /\ abort_reason' = reason

\* a step that calls the store client
Call(op, name, res, lines) ==
    [op |-> op, index |-> name, res |-> res, lines |-> lines, file |-> file_pos]
CountOf(cc, key) == IF key \in DOMAIN cc THEN cc[key] ELSE 0
RECURSIVE Counted(_, _)
Counted(cc, made) ==
    IF Len(made) = 0 THEN cc
    ELSE LET key == <<made[1].op, made[1].index>>
         IN  Counted([k \in DOMAIN cc \cup {key} |->
                         IF k = key THEN CountOf(cc, key) + 1 ELSE cc[k]], Tail(made))
Calls(made) ==
    /\ calls' = made
    /\ call_count' = Counted(call_count, made)
NoCalls == calls' = <<>> /\ UNCHANGED <<store, call_count, acked_docs, last_submitted, submit_count>>

Log(msg, file, n) == [msg |-> msg, file |-> file, row |-> n]

\* ------------------------------------------------------------------------
\* import_files: counting
\* ------------------------------------------------------------------------
\* _count_lines_fast(file_path): 0 for a zip without a .csv entry and on any
\* failure; what wc prints otherwise, also at the end of a gunzip pipe
count_lines_fast(file, answer) ==
    IF file.kind = "nocsv" \/ answer.fail THEN 0 ELSE answer.n
\* the warnings "Failed to count lines in ..." of the files from i on
RECURSIVE CountWarnings(_, _, _)
CountWarnings(file_list, answers, i) ==
    IF i > Len(file_list) THEN <<>>
    ELSE (IF file_list[i].kind \in {"regular", "unreadable"} /\ answers[i].fail
          THEN <<[msg |-> "count_failed", file |-> i, row |-> 0]>>
          ELSE <<>>)
         \o CountWarnings(file_list, answers, i + 1)
\* the values returned by the calls of _count_lines_fast; -1 where the file
\* is not counted
Counts(file_list, answers) ==
    [i \in 1..Len(file_list) |->
        IF file_list[i].kind = "notfile" THEN -1
        ELSE count_lines_fast(file_list[i], answers[i])]

\* a total that counts the header line of every file as a record
RECURSIVE SumRecordsWithHeader(_, _, _)
SumRecordsWithHeader(file_list, answers, i) ==
    IF i > Len(file_list) THEN 0
    ELSE (IF file_list[i].kind = "notfile" THEN 0
          ELSE count_lines_fast(file_list[i], answers[i]))
         + SumRecordsWithHeader(file_list, answers, i + 1)
RECURSIVE SumRecords(_, _, _)
SumRecords(file_list, answers, i) ==
    IF i > Len(file_list) THEN 0
    ELSE (IF file_list[i].kind = "notfile" THEN 0
          ELSE Max(count_lines_fast(file_list[i], answers[i]) - 1, 0))
         + SumRecords(file_list, answers, i + 1)

\* _count_total_records_fast(files)
count_total_records_fast ==
    /\ pc = "count"
    /\ \E answers \in [1..Len(files) -> LineCounts] :
          /\ total_records' = SumRecords(files, answers, 1)
          /\ line_counts' = Counts(files, answers)
          /\ logged' = CountWarnings(files, answers, 1)
    /\ pc' = "next_file"
    /\ NoCalls
    /\ UNCHANGED <<config, loaded_records, ensured_indices, abort_reason, file_pos,
                   frame, rows_read, row_fates>>

\* ------------------------------------------------------------------------
\* _import_file
\* ------------------------------------------------------------------------
\* the is_file() test that opens _import_file
is_file(file) == file.kind # "notfile"

\* a loop that starts over with the first file
NextFileRestarts(pos) == 1

\* for file_path in file_list: the position after pos
NextFile(pos) == pos + 1

\* _extract_year_month_from_filename over the file names of the model,
\* evaluated once
FileHints == [name \in {f.name : f \in FileSet} |-> extract_year_month_from_filename(name)]

\* for file_path in file_list: self._import_file(file_path), up to the row loop
import_file ==
    /\ pc = "next_file"
    /\ file_pos < Len(files)
    /\ file_pos' = NextFile(file_pos)
    /\ \E file \in {files[NextFile(file_pos)]} :
       \E hint \in {FileHints[file.name]} :
           IF ~is_file(file)
           THEN /\ logged' = <<Log("skip_file", NextFile(file_pos), 0)>>
                /\ pc' = "next_file"
                /\ UNCHANGED frame
           ELSE /\ file_year' = hint[1]
                /\ file_month' = hint[2]
                /\ index_buffers' = <<>>
                /\ indexed_docs' = 0
                /\ processed_rows' = 0
                /\ pc' = "open"
                /\ logged' = <<>>
                /\ UNCHANGED <<row, doc, index_name, leftover_pos>>
    /\ NoCalls
    /\ line_counts' = <<>>
    /\ UNCHANGED <<config, counters, ensured_indices, abort_reason, rows_read, row_fates>>

\* an _iter_rows that yields no rows from what it cannot open
CanOpenAlways(file) == TRUE

\* can _iter_rows open the file?
CanOpen(file) == file.kind \notin {"unreadable", "nocsv"}

\* _iter_rows up to its first row: the file is opened
iter_rows_open ==
    /\ pc = "open"
    /\ IF CanOpen(files[file_pos])
       THEN pc' = "rows" /\ UNCHANGED abort_reason
       ELSE Abort("open")
    /\ NoCalls
    /\ logged' = <<>>
    /\ UNCHANGED <<config, counters, ensured_indices, file_pos, frame, rows_read, row_fates,
                   line_counts>>

\* _transform_row over the rows and lookup tables of the model, evaluated once
TransformedRows ==
    {<<r, tables, transform_row(r, tables[1], tables[2])>> : r \in Rows, tables \in LookupChoices}
Transformed(r, air, canc) ==
    (CHOOSE p \in TransformedRows : p[1] = r /\ p[2] = <<air, canc>>)[3]

\* what the row loop does with a row before _ensure_index:
\*   "raise"  _transform_row raised        "skip"   no index, warning
\*   "empty"  nothing left in the document "route"  on to _ensure_index
RowFate(result, fy, fm) ==
    IF IsRaised(result) THEN "raise"
    ELSE IF DOMAIN result.d = {} THEN "empty"
    ELSE IF IsNone(extract_index_name(Get(result.d, "@timestamp"), fy, fm)) THEN "skip"
    ELSE IF DOMAIN DropNone(result.d) = {} THEN "empty"
    ELSE "route"

\* one turn of the row loop, up to the call of _ensure_index
process_row ==
    /\ pc = "rows"
    /\ rows_read < MaxRows
    /\ \E r \in Rows :
       \E result \in {Transformed(r, airports, cancellations)} :
       \E fate \in {RowFate(result, file_year, file_month)} :
              /\ processed_rows' = processed_rows + 1
              /\ row' = r
              /\ rows_read' = rows_read + 1
              /\ row_fates' = (<<file_pos, processed_rows + 1>> :> fate) @@ row_fates
              /\ line_counts' = line_counts
              /\ CASE fate = "raise" ->
                        /\ Abort("transform")
                        /\ logged' = <<>>
                        /\ UNCHANGED <<doc, index_name>>
                   [] fate = "skip" ->
                        /\ logged' = <<Log("skip_document", file_pos, processed_rows + 1)>>
                        /\ UNCHANGED <<pc, abort_reason, doc, index_name>>
                   [] fate = "empty" ->
                        /\ logged' = <<>>
                        /\ UNCHANGED <<pc, abort_reason, doc, index_name>>
                   [] fate = "route" ->
                        /\ doc' = DropNone(result.d)
                        /\ index_name' = extract_index_name(Get(result.d, "@timestamp"),
                                                            file_year, file_month)
                        /\ pc' = "ensure"
                        /\ logged' = <<>>
                        /\ UNCHANGED abort_reason
    /\ NoCalls
    /\ UNCHANGED <<config, counters, ensured_indices, file_pos, file_year, file_month,
                   index_buffers, indexed_docs, leftover_pos>>

\* the row source fails after it was opened (undecodable or malformed content)
iter_rows_error ==
    /\ pc = "rows"
    /\ Abort("read")
    /\ NoCalls
    /\ logged' = <<>>
    /\ UNCHANGED <<config, counters, ensured_indices, file_pos, frame, rows_read, row_fates,
                   line_counts>>

\* the row source is exhausted: on to the end-of-file loop
iter_rows_end ==
    /\ pc = "rows"
    /\ pc' = "leftover"
    /\ leftover_pos' = 1
    /\ NoCalls
    /\ logged' = <<>>
    /\ UNCHANGED <<config, counters, ensured_indices, abort_reason, file_pos, file_year,
                   file_month, index_buffers, indexed_docs, processed_rows, row, doc,
                   index_name, rows_read, row_fates, line_counts>>

\* ------------------------------------------------------------------------
\* _ensure_index
\* ------------------------------------------------------------------------
\* the answers of the store client
ExistsAnswers(st, name) == (IF name \in DOMAIN st THEN {"true"} ELSE {"false"}) \cup {"raise"}
DeleteAnswers == {"ok", "raise"}
\* "already_exists" and "bad_request" are 400 responses, "error" any other failure
CreateAnswers(st, name) ==
    IF name \in DOMAIN st THEN {"already_exists", "error"} ELSE {"ok", "bad_request", "error"}

Without(st, name) == [n \in DOMAIN st \ {name} |-> st[n]]
With(st, name, count) == [n \in DOMAIN st \cup {name} |-> IF n = name THEN count ELSE st[n]]

\* an _ensure_index that forgets which names it has ensured
AlreadyEnsuredNever(name, ensured) == FALSE

\* an _ensure_index that takes every name for ensured
AlreadyEnsuredAlways(name, ensured) == TRUE

\* if index_name in self._ensured_indices: return
AlreadyEnsured(name, ensured) == name \in ensured
\* an _ensure_index that keeps an index it finds
DeletesExistingNever(exists_answer) == FALSE

\* the first try block: does _ensure_index call delete after this answer?
DeletesExisting(exists_answer) == exists_answer = "true"
\* an except clause that swallows every failure of the create call
CreateSwallowedAlways(create_answer) == TRUE

\* the except clause of the create call: is this failure swallowed?
CreateSwallowed(create_answer) == create_answer \in {"already_exists", "bad_request"}

ensure_index ==
    /\ pc = "ensure"
    /\ IF AlreadyEnsured(index_name.s, ensured_indices)
       THEN /\ pc' = "buffer"
            /\ NoCalls
            /\ UNCHANGED <<ensured_indices, abort_reason>>
       ELSE \E ex \in ExistsAnswers(store, index_name.s), de \in DeleteAnswers :
               LET deletes == DeletesExisting(ex)
                   st1 == IF deletes /\ de = "ok" THEN Without(store, index_name.s) ELSE store
                   pre == <<Call("exists", index_name.s, ex, <<>>)>>
                          \o (IF deletes THEN <<Call("delete", index_name.s, de, <<>>)>>
                              ELSE <<>>)
               IN  /\ (~deletes => de = "ok")
                   /\ \E cr \in CreateAnswers(st1, index_name.s) :
                         /\ Calls(pre \o <<Call("create", index_name.s, cr, <<>>)>>)
                         /\ store' = IF cr = "ok" THEN With(st1, index_name.s, 0) ELSE st1
                         /\ IF cr = "ok" \/ CreateSwallowed(cr)
                            THEN /\ ensured_indices' = ensured_indices \cup {index_name.s}
                                 /\ pc' = "buffer"
                                 /\ UNCHANGED abort_reason
                            ELSE /\ Abort("create")
                                 /\ UNCHANGED ensured_indices
                   /\ UNCHANGED <<acked_docs, last_submitted, submit_count>>
    /\ logged' = <<>>
    /\ UNCHANGED <<config, counters, file_pos, frame, rows_read, row_fates, line_counts>>

\* ------------------------------------------------------------------------
\* buffering and _flush
\* ------------------------------------------------------------------------
ActionLine(name) == [kind |-> "action", index |-> name]
DocLine(d, f, r) == [kind |-> "doc", doc |-> d, file |-> f, row |-> r]

\* one buffer for the documents of every index
BufferPosShared(buffers, name) == IF Len(buffers) > 0 THEN 1 ELSE 0

BufferPos(buffers, name) ==
    IF \E i \in 1..Len(buffers) : buffers[i].index_name = name
    THEN CHOOSE i \in 1..Len(buffers) : buffers[i].index_name = name
    ELSE 0
\* index_buffers.setdefault(index_name, {"lines": [], "count": 0})
SetDefault(buffers, name) ==
    IF BufferPos(buffers, name) # 0 THEN buffers
    ELSE Append(buffers, [index_name |-> name, lines |-> <<>>, count |-> 0])

\* a batch test that lets the buffer grow one document past the batch size
BatchFullLate(count, size) == count > size

\* if buffer["count"] >= self._batch_size
BatchFull(count, size) == count >= size

\* the three statements that put the document into its buffer, and the test
\* that follows them
buffer_document ==
    /\ pc = "buffer"
    /\ LET buffers == SetDefault(index_buffers, index_name.s)
           i == BufferPos(buffers, index_name.s)
           lines == buffers[i].lines \o <<ActionLine(index_name.s),
                                          DocLine(doc, file_pos, processed_rows)>>
       IN  /\ index_buffers' = [buffers EXCEPT ![i].lines = lines, ![i].count = @ + 1]
           /\ IF BatchFull(buffers[i].count + 1, batch_size)
              THEN pc' = "flush" /\ UNCHANGED <<doc, index_name>>
              ELSE pc' = "rows" /\ doc' = NoDoc /\ index_name' = None
    /\ NoCalls
    /\ logged' = <<>>
    /\ UNCHANGED <<config, counters, ensured_indices, abort_reason, file_pos, file_year,
                   file_month, indexed_docs, processed_rows, row, leftover_pos, rows_read, row_fates,
                   line_counts>>

\* the answers of the bulk call: no errors, errors: true, or an exception
BulkAnswers == {"ok", "errors", "raise"}
\* a count of the lines of the payload, action lines included
DocCountOfLines(lines) == Len(lines)

\* doc_count = len(lines) // 2
DocCount(lines) == Len(lines) \div 2
\* the document lines of a payload
DocLines(lines) == {i \in 1..Len(lines) : lines[i].kind = "doc"}
\* the store after it has indexed n more documents into name (an index
\* that does not exist is created by the write)
Written(st, name, n) == With(st, name, (IF name \in DOMAIN st THEN st[name] ELSE 0) + n)

\* a _flush that counts its documents before it looks at the answer
LoadedAfterCountsFailed(loaded, lines, answer) == loaded + DocCount(lines)

\* self._loaded_records after _flush got this answer
LoadedAfter(loaded, lines, answer) ==
    IF answer = "ok" THEN loaded + DocCount(lines) ELSE loaded

\* the file and the row a document line was made from
Origin(line) == <<line.file, line.row>>

\* _flush(lines, index_name) with the store's answer; on "errors" the store
\* has kept the first `kept` documents of the payload
Flush(lines, name, answer, kept) ==
    /\ Calls(<<Call("bulk", name, answer, lines)>>)
    /\ loaded_records' = LoadedAfter(loaded_records, lines, answer)
    /\ store' = CASE answer = "ok" -> Written(store, lines[1].index, DocCount(lines))
                  [] answer = "errors" /\ kept > 0 -> Written(store, lines[1].index, kept)
                  [] OTHER -> store
    /\ acked_docs' = IF answer = "ok" THEN acked_docs + Cardinality(DocLines(lines))
                     ELSE acked_docs
    /\ last_submitted' = With(last_submitted, name, Origin(lines[Len(lines)]))
    /\ submit_count' = [k \in DOMAIN submit_count \cup {Origin(lines[i]) : i \in DocLines(lines)} |->
                           CountOf(submit_count, k)
                           + Cardinality({i \in DocLines(lines) : Origin(lines[i]) = k})]
    /\ UNCHANGED total_records

\* a reset that leaves the lines in the buffer
ClearedCountOnly(buffers, i) == [buffers EXCEPT ![i].count = 0]

\* buffer["lines"].clear(); buffer["count"] = 0
Cleared(buffers, i) == [buffers EXCEPT ![i].lines = <<>>, ![i].count = 0]

\* indexed_docs += self._flush(...); buffer["lines"].clear(); buffer["count"] = 0
flush_batch ==
    /\ pc = "flush"
    /\ LET i == BufferPos(index_buffers, index_name.s)
           lines == index_buffers[i].lines
       IN  \E answer \in BulkAnswers, kept \in 0..(DocCount(lines) - 1) :
              /\ (answer # "errors" => kept = 0)
              /\ Flush(lines, index_name.s, answer, kept)
              /\ IF answer = "ok"
                 THEN /\ indexed_docs' = indexed_docs + DocCount(lines)
                      /\ index_buffers' = Cleared(index_buffers, i)
                      /\ pc' = "rows"
                      /\ doc' = NoDoc
                      /\ index_name' = None
                      /\ UNCHANGED abort_reason
                 ELSE /\ Abort("bulk")
                      /\ UNCHANGED <<indexed_docs, index_buffers, doc, index_name>>
    /\ logged' = <<>>
    /\ UNCHANGED <<config, ensured_indices, file_pos, file_year, file_month,
                   processed_rows, row, leftover_pos, rows_read, row_fates, line_counts>>

\* an end-of-file loop that submits nothing
HasLeftoverNever(buffer) == FALSE

\* if buffer["count"]:
HasLeftover(buffer) == buffer.count # 0

\* one turn of the end-of-file loop over index_buffers.items()
flush_leftover ==
    /\ pc = "leftover"
    /\ leftover_pos <= Len(index_buffers)
    /\ LET buffer == index_buffers[leftover_pos]
       IN  IF ~HasLeftover(buffer)
           THEN /\ leftover_pos' = leftover_pos + 1
                /\ NoCalls
                /\ UNCHANGED <<pc, abort_reason, indexed_docs, counters>>
           ELSE \E answer \in BulkAnswers, kept \in 0..(DocCount(buffer.lines) - 1) :
                   /\ (answer # "errors" => kept = 0)
                   /\ Flush(buffer.lines, buffer.index_name, answer, kept)
                   /\ IF answer = "ok"
                      THEN /\ indexed_docs' = indexed_docs + DocCount(buffer.lines)
                           /\ leftover_pos' = leftover_pos + 1
                           /\ UNCHANGED <<pc, abort_reason>>
                      ELSE /\ Abort("bulk")
                           /\ UNCHANGED <<indexed_docs, leftover_pos>>
    /\ logged' = <<>>
    /\ UNCHANGED <<config, ensured_indices, file_pos, file_year, file_month, index_buffers,
                   processed_rows, row, doc, index_name, rows_read, row_fates, line_counts>>

\* _import_file returns after the end-of-file loop
import_file_return ==
    /\ pc = "leftover"
    /\ leftover_pos > Len(index_buffers)
    /\ pc' = "next_file"
    /\ FrameDropped
    /\ NoCalls
    /\ logged' = <<>>
    /\ UNCHANGED <<config, counters, ensured_indices, abort_reason, file_pos, rows_read, row_fates,
                   line_counts>>

\* the end of import_files: the "Import complete" summary
import_files_summary ==
    /\ pc = "next_file"
    /\ file_pos = Len(files)
    /\ logged' = <<Log("import_complete", loaded_records, total_records)>>
    /\ pc' = "done"
    /\ NoCalls
    /\ line_counts' = <<>>
    /\ UNCHANGED <<config, counters, ensured_indices, abort_reason, file_pos, frame,
                   rows_read, row_fates>>

Next ==
    \/ count_total_records_fast
    \/ import_file
    \/ iter_rows_open
    \/ process_row
    \/ iter_rows_error
    \/ iter_rows_end
    \/ ensure_index
    \/ buffer_document
    \/ flush_batch
    \/ flush_leftover
    \/ import_file_return
    \/ import_files_summary

Spec == Init /\ [][Next]_vars

\* import_files runs in one thread and every call it makes returns or
\* raises: a step that can be taken is taken
SpecLive == Spec /\ WF_vars(Next)

TypeOK ==
    /\ pc \in {"count", "next_file", "open", "rows", "ensure", "buffer", "flush",
               "leftover", "done", "aborted"}
    /\ batch_size >= 1
    /\ loaded_records >= 0
    /\ file_pos \in 0..Len(files)

\* ------------------------------------------------------------------------
\* Routing on its own: one file name, one row, one pass through the
\* statements of _import_file that derive the index of a document
\* ------------------------------------------------------------------------
\* the file names: those of FileSet, then
\*   flights-2024-03.csv.gz
\*   flights-2024-3.csv
\*   flights-20245.csv
\*   2024-03-flights.csv
\*   flights-2024.txt
\*   flights-2024
\*   flights_2024.csv
\*   flights-2024-03.gz.ZIP.csv
\*   flights-07-2024.csv
RouteNames ==
    <<NamePlain, NameYear, NameYearMonth,
      <<"f", "l", "i", "g", "h", "t", "s", "-", "2", "0", "2", "4", "-", "0", "3", ".", "c", "s", "v", ".", "g", "z">>,
      <<"f", "l", "i", "g", "h", "t", "s", "-", "2", "0", "2", "4", "-", "3", ".", "c", "s", "v">>,
      <<"f", "l", "i", "g", "h", "t", "s", "-", "2", "0", "2", "4", "5", ".", "c", "s", "v">>,
      <<"2", "0", "2", "4", "-", "0", "3", "-", "f", "l", "i", "g", "h", "t", "s", ".", "c", "s", "v">>,
      <<"f", "l", "i", "g", "h", "t", "s", "-", "2", "0", "2", "4", ".", "t", "x", "t">>,
      <<"f", "l", "i", "g", "h", "t", "s", "-", "2", "0", "2", "4">>,
      <<"f", "l", "i", "g", "h", "t", "s", "_", "2", "0", "2", "4", ".", "c", "s", "v">>,
      <<"f", "l", "i", "g", "h", "t", "s", "-", "2", "0", "2", "4", "-", "0", "3", ".", "g", "z", ".", "Z", "I", "P", ".", "c", "s", "v">>,
      <<"f", "l", "i", "g", "h", "t", "s", "-", "0", "7", "-", "2", "0", "2", "4", ".", "c", "s", "v">>>>
\* the rows: those of Rows that _transform_row accepts, then a row with
\*   no date column at all
\*   a date with a one-digit month
\*   a date without dashes
\*   a date between blanks
\*   an empty @timestamp beside a FlightDate
RouteRows ==
    <<RowValid, RowOther, RowBadDate, RowBlank,
      ("Origin" :> VStr(<<"J", "F", "K">>)),
      ("FlightDate" :> VStr(<<"2", "0", "2", "3", "-", "7", "-", "1", "5">>)),
      ("FlightDate" :> VStr(<<"2", "0", "2", "3", "0", "7", "1", "5">>)),
      ("FlightDate" :> VStr(<<" ", "2", "0", "2", "2", "-", "1", "2", "-", "3", "1", " ">>)) @@ ("Origin" :> VStr(<<"J", "F", "K">>)),
      ("@timestamp" :> VStr(<<>>)) @@ ("FlightDate" :> VStr(<<"2", "0", "2", "1", "-", "0", "1", "-", "0", "1">>))>>

InitRoute ==
    /\ files \in {<<[name |-> RouteNames[i], kind |-> "regular"]>> : i \in DOMAIN RouteNames}
    /\ row \in {RouteRows[i] : i \in DOMAIN RouteRows}
    /\ batch_size_arg = MaxBatch
    /\ batch_size = init_batch_size(batch_size_arg)
    /\ airports = AirportTable
    /\ cancellations = CancellationTable
    /\ total_records = 0
    /\ loaded_records = 0
    /\ ensured_indices = {}
    /\ pc = "route"
    /\ abort_reason = "none"
    /\ file_pos = 1
    /\ file_year = None
    /\ file_month = None
    /\ index_buffers = <<>>
    /\ indexed_docs = 0
    /\ processed_rows = 0
    /\ doc = NoDoc
    /\ index_name = None
    /\ leftover_pos = 0
    /\ store = <<>>
    /\ calls = <<>>
    /\ logged = <<>>
    /\ call_count = <<>>
    /\ acked_docs = 0
    /\ rows_read = 0
    /\ row_fates = <<>>
    /\ line_counts = <<>>
    /\ last_submitted = <<>>
    /\ submit_count = <<>>
    /\ args = [status |-> FALSE, delete_index |-> FALSE, file |-> FALSE, all |-> TRUE,
               glob |-> FALSE, config |-> "ok", mapping |-> "ok"]

\* file_year, file_month = self._extract_year_month_from_filename(file_path);
\* doc = self._transform_row(row); index_name = self._extract_index_name(...)
route_document ==
    /\ pc = "route"
    /\ \E hint \in {extract_year_month_from_filename(files[file_pos].name)} :
       \E result \in {transform_row(row, airports, cancellations)} :
           /\ file_year' = hint[1]
           /\ file_month' = hint[2]
           /\ doc' = result.d
           /\ index_name' = extract_index_name(Get(result.d, "@timestamp"), hint[1], hint[2])
    /\ processed_rows' = processed_rows + 1
    /\ pc' = "routed"
    /\ UNCHANGED <<config, counters, ensured_indices, abort_reason, file_pos,
                   index_buffers, indexed_docs, row, leftover_pos, client, logged,
                   rows_read, row_fates, line_counts>>

NextRoute == route_document

SpecRoute == InitRoute /\ [][NextRoute]_vars

\* ------------------------------------------------------------------------
\* The coercions of one column, text by text
\* ------------------------------------------------------------------------
\* the raw texts of a column the coercions are applied to
CoerceTexts ==
    <<<<"Y">>, <<"n">>, <<"1">>, <<"0">>, <<>>, <<" ">>, <<"m", "a", "y", "b", "e">>,
      <<"t", "r", "u", "e">>, <<"T", "R", "U", "E">>, <<" ", "T", "r", "u", "e", " ">>,
      <<"t">>, <<"T">>, <<"y", "e", "s">>, <<"y", "E", "S">>, <<"y">>,
      <<"f", "a", "l", "s", "e">>, <<"F", "a", "l", "s", "e">>, <<"f">>, <<"F", " ">>,
      <<"n", "o">>, <<"N", "O">>, <<"N">>, <<"0", ".", "0">>, <<"-", "1">>, <<"-", "0">>,
      <<"2", ".", "5">>, <<"+", "3">>, <<".", "5">>, <<"1", "e", "3">>,
      <<"1", "E", "-", "2">>, <<"-", "2", ".", "5", "e", "1">>, <<"i", "n", "f">>,
      <<"-", "i", "n", "f">>, <<"I", "n", "f", "i", "n", "i", "t", "y">>, <<"n", "a", "n">>,
      <<"a", "b", "c">>, <<"1", ".", "2", ".", "3">>, <<"0", "x", "1", "0">>,
      <<"1", ",", "5">>, <<"o", "n">>, <<"y", "e", "s", "s">>, <<"-", "-", "1">>,
      <<"1", "e">>, <<"e", "5">>, <<" ", "7", " ">>, <<"\t", "0", "\t">>, <<"0", ".", "5">>,
      <<"1", ".", "5">>, <<"-", "0", ".", "5">>, <<"1", "e", "9", "9", "9">>,
      <<"0", "e", "9", "9", "9">>, <<"-", ".", "4">>, <<"1", "2", ".", "6">>, <<"3", ".">>>>
\* what the rule of to_boolean gives for each of them, in the same order
BooleanExpected ==
    <<"true", "false", "true", "false", "absent", "absent", "absent", "true", "true", "true",
      "true", "true", "true", "true", "true", "false", "false", "false", "false", "false",
      "false", "false", "false", "false", "false", "true", "true", "true", "true", "true",
      "false", "true", "false", "true", "false", "absent", "absent", "absent", "absent",
      "absent", "absent", "absent", "absent", "absent", "true", "false", "true", "true",
      "false", "true", "false", "false", "true", "true">>
\* a row that holds the text in a boolean and in a numeric column, and a
\* row where both columns are missing
CoerceRow(text) == ("Cancelled" :> VStr(text)) @@ ("DepDelay" :> VStr(text))
CoerceRows ==
    {CoerceRow(CoerceTexts[i]) : i \in DOMAIN CoerceTexts} \cup {("Origin" :> VStr(<<"J", "F", "K">>))}

InitCoerce ==
    /\ files = <<[name |-> NamePlain, kind |-> "regular"]>>
    /\ row \in CoerceRows
    /\ batch_size_arg = MaxBatch
    /\ batch_size = init_batch_size(batch_size_arg)
    /\ airports = AirportTable
    /\ cancellations = CancellationTable
    /\ total_records = 0
    /\ loaded_records = 0
    /\ ensured_indices = {}
    /\ pc = "coerce"
    /\ abort_reason = "none"
    /\ file_pos = 1
    /\ file_year = None
    /\ file_month = None
    /\ index_buffers = <<>>
    /\ indexed_docs = 0
    /\ processed_rows = 0
    /\ doc = NoDoc
    /\ index_name = None
    /\ leftover_pos = 0
    /\ store = <<>>
    /\ calls = <<>>
    /\ logged = <<>>
    /\ call_count = <<>>
    /\ acked_docs = 0
    /\ rows_read = 0
    /\ row_fates = <<>>
    /\ line_counts = <<>>
    /\ last_submitted = <<>>
    /\ submit_count = <<>>
    /\ args = [status |-> FALSE, delete_index |-> FALSE, file |-> FALSE, all |-> TRUE,
               glob |-> FALSE, config |-> "ok", mapping |-> "ok"]

\* doc["Cancelled"] = to_boolean(row.get("Cancelled")), then the filter that
\* drops the None values
coerce_boolean ==
    /\ pc = "coerce"
    /\ doc' = DropNone("Cancelled" :> to_boolean(Get(row, "Cancelled")))
    /\ pc' = "coerced_boolean"
    /\ UNCHANGED <<config, counters, ensured_indices, abort_reason, file_pos,
                   file_year, file_month, index_buffers, indexed_docs, processed_rows,
                   row, index_name, leftover_pos, client, logged, rows_read, row_fates,
                   line_counts>>

\* doc["DepDelayMin"] = to_integer(row.get("DepDelay")), then the filter; an
\* exception of to_integer leaves _transform_row and ends the run
coerce_integer ==
    /\ pc = "coerce"
    /\ \E number \in {to_integer(Get(row, "DepDelay"))} :
          IF IsRaised(number)
          THEN /\ Abort("transform")
               /\ doc' = doc
          ELSE /\ doc' = DropNone("DepDelayMin" :> number)
               /\ pc' = "coerced_integer"
               /\ abort_reason' = abort_reason
    /\ UNCHANGED <<config, counters, ensured_indices, file_pos,
                   file_year, file_month, index_buffers, indexed_docs, processed_rows,
                   row, index_name, leftover_pos, client, logged, rows_read, row_fates,
                   line_counts>>

NextCoerce == coerce_boolean \/ coerce_integer

SpecCoerce == InitCoerce /\ [][NextCoerce]_vars

\* ------------------------------------------------------------------------
\* main(): the modes of the command line
\* ------------------------------------------------------------------------
\* --status, --delete-index, --file, --all, --glob: given or not; what the
\* paths of --config and --mapping hold:
\*   config   missing, a scalar, an empty document, a mapping without
\*            endpoint, a mapping with endpoint
\*   mapping  missing, a JSON value that is no object, a JSON object
ArgSets ==
    [status : BOOLEAN, delete_index : BOOLEAN, file : BOOLEAN, all : BOOLEAN, glob : BOOLEAN,
     config : {"missing", "scalar", "empty", "no_endpoint", "ok"},
     mapping : {"missing", "not_object", "ok"}]
\* the store before the run: without and with the index named by --index
MainStores == {(Idx2023 :> 1), (Idx2023 :> 1) @@ (index_base :> 3)}

InitMain ==
    /\ args \in ArgSets
    /\ files = <<>>
    /\ batch_size_arg = MaxBatch
    /\ batch_size = init_batch_size(batch_size_arg)
    /\ airports = AirportTable
    /\ cancellations = CancellationTable
    /\ total_records = 0
    /\ loaded_records = 0
    /\ ensured_indices = {}
    /\ pc = "main"
    /\ abort_reason = "none"
    /\ file_pos = 0
    /\ file_year = None
    /\ file_month = None
    /\ index_buffers = <<>>
    /\ indexed_docs = 0
    /\ processed_rows = 0
    /\ row = NoRow
    /\ doc = NoDoc
    /\ index_name = None
    /\ leftover_pos = 0
    /\ store \in MainStores
    /\ calls = <<>>
    /\ logged = <<>>
    /\ call_count = <<>>
    /\ acked_docs = 0
    /\ rows_read = 0
    /\ row_fates = <<>>
    /\ line_counts = <<>>
    /\ last_submitted = <<>>
    /\ submit_count = <<>>

\* raise SystemExit(...)
Exit(reason) == pc' = "exited" /\ abort_reason' = reason
\* the steps of main() that make no call and touch no file of the import
Quiet ==
    /\ NoCalls
    /\ logged' = <<>>
    /\ UNCHANGED <<config, counters, ensured_indices, file_pos, frame, rows_read, row_fates, line_counts>>

\* the two tests on the flags that open main()
main_flags ==
    /\ pc = "main"
    /\ IF args.status /\ args.delete_index THEN Exit("status_and_delete")
       ELSE IF /\ ~args.status /\ ~args.delete_index
               /\ Cardinality({opt \in {"file", "all", "glob"} : args[opt]}) > 1
       THEN Exit("selection")
       ELSE pc' = "setup" /\ UNCHANGED abort_reason
    /\ Quiet

\* a main() that goes on to the import after --status
ModeWithoutStatus(a) == IF a.delete_index THEN "delete" ELSE "resolve"

\* if args.status: ... return; if args.delete_index: ... return; else the import
Mode(a) == IF a.status THEN "status" ELSE IF a.delete_index THEN "delete" ELSE "resolve"

\* a setup that takes an empty configuration for a usable one
SetupErrorWithoutEndpoint(a) ==
    IF a.config \in {"missing", "scalar"} THEN "config"
    ELSE IF a.mapping \in {"missing", "not_object"} THEN "mapping"
    ELSE IF a.config = "no_endpoint" THEN "endpoint"
    ELSE "none"

\* the first of load_yaml, load_json and ElasticsearchConfig.from_mapping
\* that raises: load_yaml turns an empty document into {}, which from_mapping
\* rejects for its missing endpoint
SetupError(a) ==
    IF a.config \in {"missing", "scalar"} THEN "config"
    ELSE IF a.mapping \in {"missing", "not_object"} THEN "mapping"
    ELSE IF a.config \in {"empty", "no_endpoint"} THEN "endpoint"
    ELSE "none"

\* load_yaml, load_json, ElasticsearchConfig.from_mapping and
\* create_elasticsearch_client: each may raise, none calls the store
main_setup ==
    /\ pc = "setup"
    /\ \E error \in {SetupError(args)}, created \in BOOLEAN :
          IF error # "none" THEN created /\ Exit(error)
          ELSE IF ~created THEN Exit("client")
          ELSE pc' = Mode(args) /\ UNCHANGED abort_reason
    /\ Quiet

\* report_status(client)
report_status ==
    /\ pc = "status"
    /\ \E answer \in {"ok", "raise"} :
          /\ Calls(<<Call("health", <<>>, answer, <<>>)>>)
          /\ IF answer = "ok" THEN pc' = "returned" /\ UNCHANGED abort_reason
             ELSE Exit("status")
    /\ logged' = <<>>
    /\ UNCHANGED <<config, counters, ensured_indices, file_pos, frame, rows_read, row_fates, line_counts,
                   store, acked_docs, last_submitted, submit_count>>

\* delete_index(client, args.index)
delete_index ==
    /\ pc = "delete"
    /\ \E ex \in ExistsAnswers(store, index_base), de \in DeleteAnswers :
          /\ (ex # "true" => de = "ok")
          /\ Calls(<<Call("exists", index_base, ex, <<>>)>>
                   \o (IF ex = "true" THEN <<Call("delete", index_base, de, <<>>)>> ELSE <<>>))
          /\ store' = IF ex = "true" /\ de = "ok" THEN Without(store, index_base) ELSE store
          /\ IF ex = "raise" \/ de = "raise" THEN Exit("delete")
             ELSE pc' = "returned" /\ UNCHANGED abort_reason
          /\ logged' = IF ex = "false" THEN <<Log("index_not_found", 0, 0)>> ELSE <<>>
    /\ UNCHANGED <<config, counters, ensured_indices, file_pos, frame, rows_read, row_fates, line_counts,
                   acked_docs, last_submitted, submit_count>>

\* files_to_process(data_dir, args.file, args.all, args.glob): the lists it
\* can return; none when nothing is found or no selection is given
TargetLists(a) ==
    IF a.file THEN {<<f>> : f \in FileSet}
    ELSE IF a.glob
    THEN {<<[name |-> NameYearMonth, kind |-> "regular"], [name |-> NamePlain, kind |-> "regular"]>>}
    ELSE IF a.all
    THEN {<<[name |-> NameYearMonth, kind |-> "nocsv"], [name |-> NamePlain, kind |-> "regular"]>>}
    ELSE {}

\* target_files = files_to_process(...); loader = FlightLoader(...);
\* loader.import_files(target_files)
main_import ==
    /\ pc = "resolve"
    /\ \/ /\ Exit("files")
          /\ UNCHANGED files
       \/ \E target_files \in TargetLists(args) :
             /\ files' = target_files
             /\ pc' = "count"
             /\ UNCHANGED abort_reason
    /\ NoCalls
    /\ logged' = <<>>
    /\ UNCHANGED <<batch_size_arg, batch_size, airports, cancellations, args, counters,
                   ensured_indices, file_pos, frame, rows_read, row_fates, line_counts>>

NextMain ==
    \/ main_flags
    \/ main_setup
    \/ report_status
    \/ delete_index
    \/ main_import
    \/ Next

SpecMain == InitMain /\ [][NextMain]_vars

\* ------------------------------------------------------------------------
\* Properties
\* ------------------------------------------------------------------------
\* the bulk calls of the last step, and those among them that failed
BulkCalls == {i \in 1..Len(calls) : calls[i].op = "bulk"}
FailedBulkCalls == {i \in BulkCalls : calls[i].res # "ok"}
BulkFailed == FailedBulkCalls # {}

\* C1: when a bulk write answers errors: true, or the bulk call raises, the
\* flush ends the run with a fatal error and leaves loaded_records at the sum
\* of the document counts of the earlier bulk requests that were answered
\* without errors; no document of the failed batch is counted.
C1_FailedFlushCountsNothing ==
    BulkFailed => /\ pc = "aborted"
                  /\ abort_reason = "bulk"
                  /\ loaded_records = acked_docs
\* a bulk request fails after an earlier one has succeeded
C1_Witness == BulkFailed /\ pc = "aborted" /\ loaded_records > 0

\* C2: once a bulk write has reported an error the run makes no further call
\* to the store, opens no later file, flushes no buffer that is still pending
\* and never reaches the "Import complete" summary.
C2_NothingAfterBulkError ==
    [][BulkFailed => /\ call_count' = call_count
                     /\ calls' = calls
                     /\ file_pos' = file_pos
                     /\ pc' = "aborted"]_vars
\* a bulk request fails while another buffer is pending and a file is left
C2_Witness ==
    /\ BulkFailed
    /\ file_pos < Len(files)
    /\ \E i \in 1..Len(index_buffers) :
          /\ index_buffers[i].count > 0
          /\ index_buffers[i].index_name # calls[1].index

\* C3: every bulk request carries at least one document and at most
\* max(1, b) documents, b being the configured batch size; a request sent
\* from the row loop carries exactly max(1, b), one sent by the end-of-file
\* loop carries fewer than max(1, b).
C3_BatchSizes ==
    \A i \in BulkCalls :
       LET n == Cardinality(DocLines(calls[i].lines))
           limit == IF batch_size_arg < 1 THEN 1 ELSE batch_size_arg
       IN  /\ n >= 1
           /\ n <= limit
           /\ Len(calls[i].lines) = 2 * n
           /\ (leftover_pos = 0 => n = limit)
           /\ (leftover_pos > 0 => n < limit)
\* the row loop sends a full batch of more than one document
C3_Witness ==
    \E i \in BulkCalls :
       /\ leftover_pos = 0
       /\ Cardinality(DocLines(calls[i].lines)) = MaxBatch
       /\ MaxBatch > 1
\* the end-of-file loop sends what is left of a batch
C3_WitnessLeftover ==
    \E i \in BulkCalls :
       /\ leftover_pos > 0
       /\ Cardinality(DocLines(calls[i].lines)) < batch_size

C5_EnsureOncePerName ==
    /\ \A key \in DOMAIN call_count :
          key[1] \in {"exists", "create"} =>
             /\ call_count[key] = 1
             /\ CountOf(call_count, <<"exists", key[2]>>) = 1
    /\ \A name \in ensured_indices :
          /\ CountOf(call_count, <<"exists", name>>) = 1
          /\ CountOf(call_count, <<"create", name>>) = 1
    /\ \A i \in 1..Len(calls) :
          (calls[i].op = "create" /\ calls[i].res \in {"ok", "already_exists"}) =>
             /\ calls[i].index \in ensured_indices
             /\ pc = "buffer"
             /\ abort_reason = "none"
\* a second document for a name already ensured: no call is made for it
C5_Witness ==
    /\ pc = "buffer"
    /\ calls = <<>>
    /\ index_name.s \in ensured_indices
    /\ CountOf(call_count, <<"exists", index_name.s>>) = 1
\* a create answered "already exists" after the delete failed
C5_WitnessConflict ==
    \E i \in 1..Len(calls) :
       /\ calls[i].op = "create" /\ calls[i].res = "already_exists"
       /\ pc = "buffer"

\* the document lines held in the buffers and those of the last step's
\* bulk requests
BufferedDocLines ==
    UNION {{index_buffers[i].lines[j] : j \in DocLines(index_buffers[i].lines)} :
              i \in 1..Len(index_buffers)}
SubmittedDocLines ==
    UNION {{calls[i].lines[j] : j \in DocLines(calls[i].lines)} : i \in BulkCalls}
\* the loop has just read a row of the file at file_pos
RowRead == pc = "rows" /\ rows_read' = rows_read + 1

\* the rows of the model whose timestamp is absent or is no YYYY-MM-DD date,
\* and the timestamps of the other rows
UndatedRows == {RowBadDate, RowBlank}
DatedTimestamps == {RowValid["FlightDate"], RowOther["@timestamp"], RowInf["FlightDate"]}

\* the step that reads such a row from a file without a hint
C6_UnroutableSkipped ==
    [][(RowRead /\ files[file_pos].name = NamePlain /\ row' \in UndatedRows) =>
          /\ pc' = "rows"
          /\ index_buffers' = index_buffers
          /\ calls' = <<>>
          /\ call_count' = call_count
          /\ ensured_indices' = ensured_indices
          /\ logged' = <<Log("skip_document", file_pos, processed_rows')>>]_vars
\* the documents held from files without a hint all carry a dated timestamp
C6_OnlyDatedHeld ==
    \A line \in BufferedDocLines \cup SubmittedDocLines :
       files[line.file].name = NamePlain =>
          /\ "@timestamp" \in DOMAIN line.doc
          /\ line.doc["@timestamp"] \in DatedTimestamps
\* C6: a row for which no index can be derived (the file name has no year
\* hint and the row's timestamp is absent or does not start with YYYY-MM-DD)
\* is skipped with a warning: it enters no buffer and no bulk request, no
\* index is checked or created for it, and the loop goes on to the next row.
C6_UnroutableNeverSubmitted == []C6_OnlyDatedHeld /\ C6_UnroutableSkipped
\* a row with an unparsable date is skipped after another row was buffered
C6_Witness ==
    /\ pc = "rows"
    /\ row = RowBadDate
    /\ files[file_pos].name = NamePlain
    /\ logged = <<Log("skip_document", file_pos, 2)>>
    /\ BufferedDocLines # {}

\* what each file name of RouteNames ends in once its .csv/.gz/.zip suffixes
\* are stripped: <<YYYY, MM>>, an empty string where there is none
NameHints ==
    <<<<"", "">>, <<"2024", "">>, <<"2024", "03">>, <<"2024", "03">>, <<"", "">>, <<"", "">>,
      <<"", "">>, <<"", "">>, <<"2024", "">>, <<"", "">>, <<"2024", "03">>, <<"2024", "">>>>
\* the year of each row of RouteRows whose timestamp starts with YYYY-MM-DD,
\* an empty string for the others
RowYears == <<"2023", "2024", "", "", "", "", "", "2022", "2021">>
\* "2024" as the characters the model's strings are made of
Chars(text) ==
    CASE text = "2021" -> <<"2", "0", "2", "1">>
      [] text = "2022" -> <<"2", "0", "2", "2">>
      [] text = "2023" -> <<"2", "0", "2", "3">>
      [] text = "2024" -> <<"2", "0", "2", "4">>
      [] text = "03" -> <<"0", "3">>
ExpectedIndex(name, r) ==
    LET hint == NameHints[CHOOSE i \in DOMAIN RouteNames : RouteNames[i] = name]
        year == RowYears[CHOOSE i \in DOMAIN RouteRows : RouteRows[i] = r]
    IN  IF hint[2] # ""
        THEN VStr(index_base \o <<"-">> \o Chars(hint[1]) \o <<"-">> \o Chars(hint[2]))
        ELSE IF hint[1] # "" THEN VStr(index_base \o <<"-">> \o Chars(hint[1]))
        ELSE IF year # "" THEN VStr(index_base \o <<"-">> \o Chars(year))
        ELSE None

\* C7: the index of a document follows this precedence, for every file name
\* and every row timestamp: the name ends in -YYYY-MM: base-YYYY-MM; else it
\* ends in -YYYY: base-YYYY; else the timestamp starts with YYYY-MM-DD:
\* base-YYYY of the timestamp; else none.  With a hint in the file name the
\* timestamp has no influence, absent or of another year.
C7_RoutingPrecedence ==
    pc = "routed" => index_name = ExpectedIndex(files[file_pos].name, row)
\* a row dated 2023 in a file named for 2024 goes to the index of 2024
C7_Witness ==
    /\ pc = "routed"
    /\ files[file_pos].name = NameYear
    /\ row = RowValid
    /\ index_name = VStr(Idx2024)

\* C8 as stated: a file that cannot be opened (missing or not a regular
\* file, unreadable zip/gzip, zip without a .csv entry) aborts the run: no
\* file after it is processed and the summary is not reached.
C8_UnopenableAborts ==
    \A i \in 1..Len(files) :
       files[i].kind # "regular" => (file_pos <= i /\ pc # "done")

\* C8 amended: a file that _iter_rows cannot open (unreadable zip/gzip, zip
\* without a .csv entry) aborts the run: no file after it is processed and
\* the summary is not reached; a path that is missing or is not a regular
\* file is skipped with a warning and the run goes on after it.
C8_OpenFailureAborts ==
    \A i \in 1..Len(files) :
       /\ files[i].kind \in {"unreadable", "nocsv"} =>
             /\ file_pos <= i
             /\ pc # "done"
             /\ (file_pos = i => /\ pc \in {"open", "aborted"}
                                 /\ (pc = "aborted" => abort_reason = "open")
                                 /\ calls = <<>>)
       /\ (files[i].kind = "notfile" /\ file_pos = i) =>
             /\ pc \in {"next_file", "done"}
             /\ (pc = "next_file" => logged = <<Log("skip_file", i, 0)>>)
             /\ abort_reason = "none"
\* the run passes a path that is no regular file and ends at the archive
\* after it, which cannot be opened
C8_Witness ==
    /\ Len(files) = 2
    /\ files[1].kind = "notfile"
    /\ files[2].kind = "nocsv"
    /\ file_pos = 2
    /\ pc = "aborted"
    /\ abort_reason = "open"

\* C9 as stated: no field value of a row aborts the run; whatever its
\* numeric and boolean columns hold, the transform completes and the loop
\* goes on.
C9_NoRowAborts == [][RowRead => pc' # "aborted"]_vars

\* a value a store accepts in a document: not None, not the empty string
PresentValue(v) == ~IsNone(v) /\ ~IsRaised(v) /\ (v.t = "str" => Len(v.s) > 0)
\* the documents submitted, and those waiting in the buffers
C10_OnlyPresentSubmitted ==
    \A line \in SubmittedDocLines \cup BufferedDocLines :
       /\ DOMAIN line.doc # {}
       /\ \A key \in DOMAIN line.doc : PresentValue(line.doc[key])
\* the step that reads a row whose columns are all blank
C10_BlankRowDropped ==
    [][(RowRead /\ row' = RowBlank) =>
          /\ pc' = "rows"
          /\ index_buffers' = index_buffers
          /\ calls' = <<>>]_vars
\* C10: every document line of every bulk request holds present values
\* only: no key maps to None or to the empty string; a document with no
\* present field is never submitted, and a row whose columns are all blank is
\* dropped even when the file name supplies the index.
C10_NoNullsSubmitted == []C10_OnlyPresentSubmitted /\ C10_BlankRowDropped
\* a submitted document lacks the keys of the blank columns of its row
C10_Witness ==
    \E line \in SubmittedDocLines :
       /\ "Origin" \in DOMAIN line.doc
       /\ "Dest" \notin DOMAIN line.doc
       /\ "DepDelayMin" \notin DOMAIN line.doc
\* a blank row is dropped in a file whose name supplies the index
C10_WitnessBlank ==
    /\ pc = "rows"
    /\ row = RowBlank
    /\ files[file_pos].name = NameYearMonth
    /\ logged = <<>>

\* the keys _transform_row copies from a column through present(), each
\* with its column
CopiedFields ==
    {<<"Reporting_Airline", "Reporting_Airline">>,
     <<"Flight_Number", "Flight_Number_Reporting_Airline">>,
     <<"Origin", "Origin">>, <<"Dest", "Dest">>, <<"Tail_Number", "Tail_Number">>,
     <<"CancellationCode", "CancellationCode">>}
\* the column is missing from the row or holds nothing but white space
BlankColumn(r, column) ==
    column \notin DOMAIN r \/ \A i \in 1..Len(r[column].s) : r[column].s[i] \in Whitespace

\* C11 as stated: the document returned by _transform_row has no key whose
\* value is None; a field whose column is missing, blank or unparsable is
\* absent from the returned mapping.
C11_ReturnedWithoutNone ==
    pc = "routed" => \A key \in DOMAIN doc : ~IsNone(doc[key])

\* C11 amended: the document returned by _transform_row holds every key it
\* assigns without a condition, with the value None where the column is
\* missing, blank or unparsable; only FlightID, CancellationReason,
\* OriginLocation and DestLocation are absent when they have no value.
C11_ReturnedHoldsNone ==
    pc = "routed" =>
       /\ AssignedKeys \subseteq DOMAIN doc
       /\ \A key \in DOMAIN doc \ AssignedKeys : ~IsNone(doc[key])
       /\ \A field \in CopiedFields :
             IsNone(doc[field[1]]) <=> BlankColumn(row, field[2])
       /\ \A key \in IntegerKeys \cup {"Cancelled", "Diverted"} :
             doc[key].t \in {"none", "int", "bool"}
\* the returned document of a row with a blank Dest and a DepDelay of "abc"
C11_Witness ==
    /\ pc = "routed"
    /\ row = RowOther
    /\ IsNone(doc["Dest"])
    /\ IsNone(doc["DepDelayMin"])
    /\ "FlightID" \notin DOMAIN doc

\* the five keys of a document FlightID is made of, in order
FlightIdKeys == <<"@timestamp", "Reporting_Airline", "Flight_Number", "Origin", "Dest">>
\* their values joined by "_"
JoinedId(v) ==
    VStr(v[1].s \o <<"_">> \o v[2].s \o <<"_">> \o v[3].s \o <<"_">> \o v[4].s \o <<"_">> \o v[5].s)
\* a document has FlightID exactly when it has all five, and then FlightID
\* is their values joined
FlightIdWhole(d) ==
    /\ "FlightID" \in DOMAIN d <=> \A i \in 1..5 : FlightIdKeys[i] \in DOMAIN d
    /\ "FlightID" \in DOMAIN d => d["FlightID"] = JoinedId([i \in 1..5 |-> d[FlightIdKeys[i]]])
\* the column the timestamp of a row is read from
TimestampColumn(r) == IF BlankColumn(r, "@timestamp") THEN "FlightDate" ELSE "@timestamp"
\* the five columns of a row FlightID is made of
FlightIdColumns(r) ==
    <<TimestampColumn(r), "Reporting_Airline", "Flight_Number_Reporting_Airline", "Origin", "Dest">>
FlightIdOfRow(r, columns) ==
    /\ "FlightID" \in DOMAIN doc <=> \A i \in 1..5 : ~BlankColumn(r, columns[i])
    /\ "FlightID" \in DOMAIN doc =>
          doc["FlightID"] = JoinedId([i \in 1..5 |-> VStr(Strip(r[columns[i]].s))])

\* C12: a document buffered or submitted has FlightID exactly when the
\* timestamp, Reporting_Airline, Flight_Number_Reporting_Airline, Origin and
\* Dest of its row are all present after trimming, and FlightID is then the
\* five trimmed values joined by "_"; it is never built from part of them.
C12_FlightIdAllOrNothing ==
    /\ \A line \in SubmittedDocLines \cup BufferedDocLines : FlightIdWhole(line.doc)
    /\ pc \in {"ensure", "buffer"} => FlightIdOfRow(row, FlightIdColumns(row))
\* a request that holds the document of a full row, its Dest trimmed, and
\* the document of a row without Dest and flight number
C12_Witness ==
    /\ \E line \in SubmittedDocLines :
          /\ "FlightID" \in DOMAIN line.doc
          /\ line.doc["FlightID"] =
                VStr(<<"2", "0", "2", "3", "-", "0", "7", "-", "1", "5", "_", "A", "A", "_",
                       "1", "2", "_", "J", "F", "K", "_", "L", "A", "X">>)
    /\ \E line \in SubmittedDocLines :
          /\ "FlightID" \notin DOMAIN line.doc
          /\ {"@timestamp", "Reporting_Airline", "Origin"} \subseteq DOMAIN line.doc

\* what the rule gives for the boolean column of a row: "absent" when the
\* column is missing
ExpectedBoolean(r) ==
    IF "Cancelled" \notin DOMAIN r THEN "absent"
    ELSE BooleanExpected[CHOOSE i \in DOMAIN CoerceTexts : CoerceTexts[i] = r["Cancelled"].s]
BooleanAsExpected(d, expected) ==
    /\ expected = "absent" <=> "Cancelled" \notin DOMAIN d
    /\ expected = "true" => d["Cancelled"] = VBool(TRUE)
    /\ expected = "false" => d["Cancelled"] = VBool(FALSE)

\* C13: to_boolean maps, after trimming and whatever the case, true, t, yes
\* and y to true and false, f, no and n to false; any other text float()
\* reads is true exactly when the number is greater than zero; a missing,
\* blank or unreadable value gives no value, and the key is then left out of
\* the document.
C13_BooleanCoercion ==
    pc = "coerced_boolean" => BooleanAsExpected(doc, ExpectedBoolean(row))
\* "Y" has become true
C13_Witness ==
    /\ pc = "coerced_boolean"
    /\ row = CoerceRow(<<"Y">>)
    /\ doc = ("Cancelled" :> VBool(TRUE))
\* "maybe" has left no key
C13_WitnessAbsent ==
    /\ pc = "coerced_boolean"
    /\ row = CoerceRow(<<"m", "a", "y", "b", "e">>)
    /\ doc = NoDoc

\* C14 as stated: to_integer never raises; for every raw value it gives an
\* integer or no value.
C14_ToIntegerNeverRaises ==
    pc = "coerce" \/ pc = "coerced_boolean" \/ (pc = "coerced_integer" /\ abort_reason = "none")

\* the records a returned line count stands for: the lines less the header
RecordsOf(count) == IF count > 0 THEN count - 1 ELSE 0
RECURSIVE RecordsFrom(_, _)
RecordsFrom(counts, i) ==
    IF i > Len(counts) THEN 0 ELSE RecordsOf(counts[i]) + RecordsFrom(counts, i + 1)
\* the files whose line counting failed in the step
CountFailed(lines) == {lines[i].file : i \in {j \in 1..Len(lines) : lines[j].msg = "count_failed"}}
\* the counting step: it ends in the file loop whatever the counters gave
Counting ==
    /\ pc' = "next_file"
    /\ abort_reason' = "none"
    /\ file_pos' = 0
    /\ call_count' = <<>>
    /\ rows_read' = 0
    /\ Len(line_counts') = Len(files)
    /\ \A i \in 1..Len(files) : line_counts'[i] = -1 <=> files[i].kind = "notfile"
    /\ \A i \in CountFailed(logged') : line_counts'[i] = 0
    /\ total_records' = RecordsFrom(line_counts', 1)

\* C15: a failure of the fast line counting never ends or holds up the
\* import: the file counts for 0 records and the run goes on to the loop over
\* the files; total_records is the sum over the regular files of
\* max(line count - 1, 0), set once before the first file is imported and
\* never changed afterwards.
C15_CountingNeverBlocks ==
    [][IF pc = "count" THEN Counting ELSE total_records' = total_records]_vars
\* the counting of one file has failed and that of another has not; the
\* import of the first file has started all the same
C15_Witness ==
    /\ pc = "open"
    /\ file_pos = 1
    /\ Len(files) = 2
    /\ files[1].kind = "regular"
    /\ total_records = MaxRows
\* the state the counting leaves when it failed for the first file
C15_WitnessFailed ==
    /\ pc = "next_file"
    /\ file_pos = 0
    /\ CountFailed(logged) = {1}
    /\ line_counts = <<0, MaxRows + 1>>
    /\ total_records = MaxRows

\* the files the document lines of the step's bulk requests were read from
SubmittedFiles(made) ==
    UNION {{made[i].lines[j].file : j \in DocLines(made[i].lines)} : i \in 1..Len(made)}
\* the files the store calls of the step were made for
CallingFiles(made) == {made[i].file : i \in 1..Len(made)}

\* C16: the files are imported in the order of the list, one at a time: the
\* loop moves from a file to the one after it only, and only between two
\* imports; every store call of a step, and every document it submits,
\* belongs to the file the loop stands at, so the calls of a file all come
\* before those of the next file, and no file is visited twice.
C16_FilesInListOrder ==
    [][/\ file_pos' \in {file_pos, file_pos + 1}
       /\ file_pos' = file_pos + 1 <=> (pc = "next_file" /\ pc' # "done")
       /\ file_pos' = file_pos + 1 => (calls' = <<>> /\ index_buffers = <<>>)
       /\ CallingFiles(calls') \subseteq {file_pos'} \ {0}
       /\ SubmittedFiles(calls') \subseteq {file_pos'}]_vars
\* the second file submits documents after the first file has had its index
\* created
C16_Witness ==
    /\ files = <<[name |-> NamePlain, kind |-> "regular"],
                 [name |-> NameYearMonth, kind |-> "regular"]>>
    /\ file_pos = 2
    /\ BulkCalls # {}
    /\ ensured_indices = {Idx2023, Idx202403}

\* the documents waiting in the buffers from position i on
RECURSIVE PendingFrom(_, _)
PendingFrom(buffers, i) ==
    IF i > Len(buffers) THEN 0 ELSE DocCount(buffers[i].lines) + PendingFrom(buffers, i + 1)
\* the documents of the file that were submitted and those the loops have
\* still to submit
Held(indexed, buffers, pos) == indexed + PendingFrom(buffers, IF pos = 0 THEN 1 ELSE pos)
InFile(at) == at \in {"rows", "ensure", "buffer", "flush", "leftover"}
\* one turn of the end-of-file loop: a bulk request with the lines of the
\* buffer when it holds documents, no call when it holds none
LeftoverTurn(buffer) ==
    IF buffer.lines = <<>>
    THEN calls' = <<>> /\ pc' = "leftover" /\ leftover_pos' = leftover_pos + 1
    ELSE /\ Len(calls') = 1
         /\ calls'[1].op = "bulk"
         /\ calls'[1].index = buffer.index_name
         /\ calls'[1].lines = buffer.lines
         /\ IF calls'[1].res = "ok"
            THEN pc' = "leftover" /\ leftover_pos' = leftover_pos + 1
            ELSE pc' = "aborted"

\* C17: when the import of a file ends without an error every document
\* buffered for it has been submitted: after the last row each buffer that
\* holds documents is submitted in one bulk request, once, a buffer that holds
\* none causes no request, no document leaves a buffer unsubmitted, and the
\* next file starts with no buffer.
C17_FlushedAtEndOfFile ==
    [][/\ (pc = "leftover" /\ leftover_pos <= Len(index_buffers)) =>
             LeftoverTurn(index_buffers[leftover_pos])
       /\ (InFile(pc) /\ InFile(pc')) =>
             Held(indexed_docs', index_buffers', leftover_pos')
                = Held(indexed_docs, index_buffers, leftover_pos) + (IF pc = "buffer" THEN 1 ELSE 0)
       /\ (InFile(pc) /\ pc' = "next_file") =>
             /\ leftover_pos > Len(index_buffers)
             /\ PendingFrom(index_buffers, leftover_pos) = 0
             /\ index_buffers' = <<>>
             /\ calls' = <<>>]_vars
\* the end-of-file loop has submitted the buffer of one index and stands at
\* the buffer of another
C17_Witness ==
    /\ pc = "leftover"
    /\ leftover_pos = 2
    /\ Len(index_buffers) = 2
    /\ BulkCalls # {}
    /\ index_buffers[2].lines # <<>>
    /\ indexed_docs = 1
\* the end-of-file loop has passed a buffer that a batch flush had emptied
C17_WitnessEmpty ==
    /\ pc = "leftover"
    /\ leftover_pos = 2
    /\ index_buffers[1].lines = <<>>
    /\ calls = <<>>
    /\ indexed_docs = 1

\* <<file, row>> a comes before b: an earlier file, or the same file and an
\* earlier row
Before(a, b) == a[1] < b[1] \/ (a[1] = b[1] /\ a[2] < b[2])
\* the documents of a bulk request come in file order then row order, all
\* of them after the last document sent to the index before
InOrder(request, sent) ==
    /\ \A i \in 1..Len(request.lines) :
          request.lines[i].kind = "action" => request.lines[i].index = request.index
    /\ \A i, j \in DocLines(request.lines) :
          i < j => Before(Origin(request.lines[i]), Origin(request.lines[j]))
    /\ request.index \in DOMAIN sent =>
          \A i \in DocLines(request.lines) : Before(sent[request.index], Origin(request.lines[i]))

\* C18: for every index the documents of its bulk requests, taken in the
\* order the requests are issued, are in file order and, within a file, in
\* row order: each request lists its documents in that order and starts
\* after the last document of the request before it.
C18_SubmittedInRowOrder ==
    [][\A i \in 1..Len(calls') : calls'[i].op = "bulk" => InOrder(calls'[i], last_submitted)]_vars
\* a second request for an index, with a later row of the same file
C18_Witness ==
    /\ BulkCalls # {}
    /\ \E i \in BulkCalls :
          /\ last_submitted[calls[i].index] = <<1, 2>>
          /\ DocCount(calls[i].lines) = 1
          /\ CountOf(call_count, <<"bulk", calls[i].index>>) = 2
    /\ acked_docs = 2
\* a request with two documents of one file
C18_WitnessBatch ==
    \E i \in BulkCalls :
       /\ DocCount(calls[i].lines) = 2
       /\ Origin(calls[i].lines[2]) = <<1, 1>>
       /\ Origin(calls[i].lines[4]) = <<1, 2>>

\* the documents of the bulk requests of a step that were answered without
\* errors
RECURSIVE AckedIn(_, _)
AckedIn(made, i) ==
    IF i > Len(made) THEN 0
    ELSE (IF made[i].op = "bulk" /\ made[i].res = "ok"
          THEN Cardinality(DocLines(made[i].lines)) ELSE 0)
         + AckedIn(made, i + 1)

\* C19: loaded_records starts at 0 and never decreases; it changes only in
\* a flush whose bulk request is answered without errors, and then grows by
\* the number of documents of that batch; at every moment it is the number of
\* documents of the bulk requests answered without errors so far.
C19_LoadedCountsAcknowledged ==
    /\ loaded_records = 0
    /\ [][/\ loaded_records' = loaded_records + AckedIn(calls', 1)
          /\ loaded_records' >= loaded_records
          /\ loaded_records' # loaded_records => pc \in {"flush", "leftover"}
          /\ loaded_records' = acked_docs']_vars
\* a second bulk request has been answered without errors
C19_Witness ==
    /\ loaded_records = 2
    /\ \E i \in BulkCalls : calls[i].res = "ok" /\ DocCount(calls[i].lines) = 1
    /\ pc \in {"rows", "leftover"}

\* the store calls a run has made so far, by operation and index
CallsMade == DOMAIN call_count

\* C20: a run with --status or --delete-index never enters the import: it
\* resolves no file, counts no lines, creates no index and writes no bulk
\* request, whatever --file, --all and --glob say; --status only reads the
\* cluster health, --delete-index only asks whether the index named by
\* --index exists and deletes it, and with both flags the run ends before any
\* call to the store.
C20_ModesNeverImport ==
    (args.status \/ args.delete_index) =>
       /\ pc \in {"main", "setup", "status", "delete", "returned", "exited"}
       /\ files = <<>>
       /\ line_counts = <<>>
       /\ total_records = 0
       /\ rows_read = 0
       /\ \A made \in CallsMade : made[1] \notin {"create", "bulk"}
       /\ Idx2023 \in DOMAIN store
       /\ (args.status /\ ~args.delete_index) =>
             (CallsMade \subseteq {<<"health", <<>>>>} /\ store \in MainStores)
       /\ (args.delete_index /\ ~args.status) =>
             CallsMade \subseteq {<<"exists", index_base>>, <<"delete", index_base>>}
       /\ (args.status /\ args.delete_index) => (CallsMade = {} /\ pc \in {"main", "exited"})
\* --delete-index given with --all and --glob: the index is gone and the
\* run has returned
C20_Witness ==
    /\ args = [status |-> FALSE, delete_index |-> TRUE, file |-> FALSE, all |-> TRUE,
               glob |-> TRUE, config |-> "ok", mapping |-> "ok"]
    /\ pc = "returned"
    /\ CallsMade = {<<"exists", index_base>>, <<"delete", index_base>>}
    /\ index_base \notin DOMAIN store
\* --status given with --file: the health has been read and the run has returned
C20_WitnessStatus ==
    /\ args.status /\ args.file
    /\ pc = "returned"
    /\ CallsMade = {<<"health", <<>>>>}
\* both flags: the run has ended
C20_WitnessBoth ==
    /\ args.status /\ args.delete_index
    /\ pc = "exited"
\* without the two flags the import is entered and writes
C20_WitnessImport ==
    /\ ~args.status /\ ~args.delete_index
    /\ \E made \in CallsMade : made[1] = "bulk"

\* the command line names a configuration or a mapping that cannot be used
BadSetup(a) == a.config # "ok" \/ a.mapping # "ok"

\* C21: a configuration error (the config file is missing or is no mapping,
\* the endpoint is missing, the mapping file is missing or is no JSON object)
\* ends the process with a failure exit before any request is sent to the
\* store, in the import mode, with --status and with --delete-index.
C21_ConfigErrorExitsFirst ==
    [][BadSetup(args) =>
          /\ pc = "setup" => (pc' = "exited" /\ abort_reason' \in {"config", "mapping", "endpoint"})
          /\ pc' \in {"setup", "exited"}
          /\ calls' = <<>>
          /\ call_count' = <<>>
          /\ store' = store
          /\ files' = <<>>]_vars
\* --delete-index with an empty configuration document: the run has ended
\* on the missing endpoint
C21_Witness ==
    /\ args.delete_index /\ ~args.status
    /\ args.config = "empty"
    /\ args.mapping = "ok"
    /\ pc = "exited"
    /\ abort_reason = "endpoint"
\* the import mode with a mapping file that is no JSON object
C21_WitnessMapping ==
    /\ ~args.delete_index /\ ~args.status /\ args.all
    /\ args.config = "ok"
    /\ args.mapping = "not_object"
    /\ pc = "exited"
    /\ abort_reason = "mapping"
\* --status with a missing config file
C21_WitnessStatus ==
    /\ args.status /\ ~args.delete_index
    /\ args.config = "missing"
    /\ pc = "exited"
    /\ abort_reason = "config"

\* the code of a column, trimmed and in upper case; <<>> when there is none
CodeOf(r, column) == IF BlankColumn(r, column) THEN <<>> ELSE Upper(Strip(r[column].s))
\* the enrichment keys a document of the row must hold, with their values:
\* the only airport known is JFK, the only cancellation code B
Enrichment(r) ==
    (IF CodeOf(r, "Origin") = <<"J", "F", "K">>
     THEN "OriginLocation" :> VStr(<<"4", "0", ".", "6", ",", "-", "7", "3", ".", "7">>) ELSE <<>>)
    @@ (IF CodeOf(r, "Dest") = <<"J", "F", "K">>
        THEN "DestLocation" :> VStr(<<"4", "0", ".", "6", ",", "-", "7", "3", ".", "7">>) ELSE <<>>)
    @@ (IF CodeOf(r, "CancellationCode") = <<"B">>
        THEN "CancellationReason" :> VStr(<<"W", "e", "a", "t", "h", "e", "r">>) ELSE <<>>)
Enriched(d, expected) ==
    \A key \in {"OriginLocation", "DestLocation", "CancellationReason"} :
       /\ key \in DOMAIN d <=> key \in DOMAIN expected
       /\ key \in DOMAIN d => d[key] = expected[key]

\* C22: the airport and cancellation tables are those the constructor left:
\* no step of import_files, no row transformation and no lookup changes them.
\* A lookup with a missing, blank or unknown code gives no value and
\* OriginLocation, DestLocation or CancellationReason is then left out of the
\* document, without an error; a code matches whatever its case.
C22_LookupsReadOnly ==
    [][/\ airports' = airports
       /\ cancellations' = cancellations
       /\ airports = AirportTable
       /\ cancellations = CancellationTable
       /\ pc' \in {"ensure", "buffer"} => Enriched(doc', Enrichment(row'))
       /\ (RowRead /\ row' \in {RowValid, RowOther} /\ pc' = "aborted") => FALSE]_vars
\* the document of a row with Origin " jfk ", a blank Dest and the
\* cancellation code "b"
C22_Witness ==
    /\ pc = "buffer"
    /\ row = RowOther
    /\ doc["OriginLocation"] = VStr(<<"4", "0", ".", "6", ",", "-", "7", "3", ".", "7">>)
    /\ doc["CancellationReason"] = VStr(<<"W", "e", "a", "t", "h", "e", "r">>)
    /\ "DestLocation" \notin DOMAIN doc
\* the document of a row whose Dest is unknown and whose cancellation code
\* is empty
C22_WitnessUnknown ==
    /\ pc = "buffer"
    /\ row = RowValid
    /\ "OriginLocation" \in DOMAIN doc
    /\ "DestLocation" \notin DOMAIN doc
    /\ "CancellationReason" \notin DOMAIN doc

\* the create calls of a step that failed for another reason than an index
\* that exists already
RejectedCreates(made) ==
    {i \in 1..Len(made) : made[i].op = "create" /\ made[i].res \notin {"ok", "already_exists"}}

\* C23 as stated: a create call that fails for any other reason than
\* "already exists" (a rejected mapping, a bad request) ends the run with the
\* fatal "Index creation failed" error; the name is not added to the ensured
\* set and no document is buffered or written for that index.
C23_OnlyConflictSwallowed ==
    [][RejectedCreates(calls') # {} =>
          /\ pc' = "aborted"
          /\ abort_reason' = "create"
          /\ ensured_indices' = ensured_indices]_vars

\* the states of the run as the specification names them
Phase(at) ==
    CASE at = "count" -> "Counting"
      [] at \in {"next_file", "open", "rows", "ensure", "buffer"} -> "Importing"
      [] at \in {"flush", "leftover"} -> "Flushing"
      [] at = "done" -> "Done"
      [] at = "aborted" -> "Aborted"
\* the step that logs the final summary
Reporting == pc = "next_file" /\ pc' = "done"
\* the steps from one place of the run to the next that the loader takes
Order ==
    {<<"count", "next_file">>, <<"next_file", "next_file">>, <<"next_file", "open">>,
     <<"next_file", "done">>, <<"open", "rows">>, <<"rows", "rows">>, <<"rows", "ensure">>,
     <<"rows", "leftover">>, <<"ensure", "buffer">>, <<"buffer", "rows">>,
     <<"buffer", "flush">>, <<"flush", "rows">>, <<"leftover", "leftover">>,
     <<"leftover", "next_file">>}
\* the places an exception ends the run from, each with the operation that
\* raised
AbortedFrom ==
    {<<"open", "open">>, <<"rows", "read">>, <<"rows", "transform">>, <<"ensure", "create">>,
     <<"flush", "bulk">>, <<"leftover", "bulk">>}

\* C24 as stated: the run goes Counting, Importing, Flushing, Reporting,
\* Done; Aborted is terminal and is entered only from Flushing, on a bulk
\* error; Done and Aborted exclude each other.
C24_AbortedOnlyFromFlushing ==
    [][/\ Phase(pc) \notin {"Done", "Aborted"}
       /\ <<pc, pc'>> \in Order \/ pc' = "aborted"
       /\ pc' = "aborted" => (Phase(pc) = "Flushing" /\ BulkFailed')]_vars

\* C24 amended: the run goes Counting, Importing, Flushing, Reporting, Done;
\* Done and Aborted are terminal and exclude each other; Aborted is entered
\* from Flushing on a bulk error and also from Importing: when a file cannot
\* be opened, when reading a row fails, when the transformation of a row
\* raises and when the creation of an index fails with an error that is not
\* swallowed.
C24_RunOrder ==
    [][/\ Phase(pc) \notin {"Done", "Aborted"}
       /\ <<pc, pc'>> \in Order \/ pc' = "aborted"
       /\ pc' = "aborted" <=> abort_reason' # "none"
       /\ pc' = "aborted" => <<pc, abort_reason'>> \in AbortedFrom
       /\ (Phase(pc) = "Flushing" /\ pc' = "aborted") <=> BulkFailed'
       /\ (\E i \in 1..Len(calls') : calls'[i].op = "create" /\ calls'[i].res = "error")
             <=> (pc = "ensure" /\ pc' = "aborted")
       /\ Reporting <=> (Len(logged') = 1 /\ logged'[1].msg = "import_complete")]_vars
\* the run has ended while it was importing: the creation of an index failed
C24_Witness ==
    /\ pc = "aborted"
    /\ abort_reason = "create"
    /\ calls # <<>>
    /\ calls[Len(calls)].op = "create"
\* the run has ended on a file that cannot be opened
C24_WitnessOpen == pc = "aborted" /\ abort_reason = "open"
\* the run has ended in Done after writing documents
C24_WitnessDone == pc = "done" /\ loaded_records > 0 /\ abort_reason = "none"

\* the index a document line was routed to: that of the hint in the name of
\* its file, else that of the year of its timestamp
RoutedTo(line) ==
    IF files[line.file].name = NameYearMonth THEN Idx202403
    ELSE index_base \o <<"-">> \o SubSeq(line.doc["@timestamp"].s, 1, 4)
\* a payload of action line, document line pairs for one index
Payload(request) ==
    /\ Len(request.lines) >= 2
    /\ Len(request.lines) % 2 = 0
    /\ \A i \in 1..Len(request.lines) :
          IF i % 2 = 1
          THEN request.lines[i] = [kind |-> "action", index |-> request.index]
          ELSE /\ request.lines[i].kind = "doc"
               /\ RoutedTo(request.lines[i]) = request.index

\* C25: every bulk payload is a non-empty sequence of an even number of
\* lines, action line and document line in turn; all its action lines name
\* the index the flush was issued for, and each of its documents was routed to
\* that index: documents of two indices never share a request.
C25_PayloadOfOneIndex == \A i \in BulkCalls : Payload(calls[i])
\* a request of one document while the buffer of another index holds one
C25_Witness ==
    \E i \in BulkCalls, j \in 1..Len(index_buffers) :
       /\ Len(calls[i].lines) = 2
       /\ index_buffers[j].index_name # calls[i].index
       /\ index_buffers[j].count > 0
\* a request of two documents
C25_WitnessPairs == \E i \in BulkCalls : Len(calls[i].lines) = 4

\* the indices of the bulk requests of the step and of the documents that
\* wait in the buffers
WrittenIndices == {calls[i].index : i \in BulkCalls}
BufferedIndices == {index_buffers[i].index_name : i \in 1..Len(index_buffers)}
EnsuredBeforeWrite ==
    \A name \in WrittenIndices \cup BufferedIndices :
       /\ name \in ensured_indices
       /\ CountOf(call_count, <<"exists", name>>) = 1
       /\ CountOf(call_count, <<"create", name>>) = 1

\* C26: ensure precedes write: when a bulk request is issued the index it
\* targets is in the ensured set already, _ensure_index having returned for
\* that name earlier in the run; the ensured set only grows.
C26_EnsureBeforeWrite ==
    /\ []EnsuredBeforeWrite
    /\ [][ensured_indices \subseteq ensured_indices']_vars
\* a bulk request for the second index the run has ensured
C26_Witness ==
    /\ BulkCalls # {}
    /\ Cardinality(ensured_indices) = 2
    /\ WrittenIndices \subseteq ensured_indices

\* the indices the step asks the store to delete
DeletedIn(made) == {made[i].index : i \in {j \in 1..Len(made) : made[j].op = "delete"}}
\* the indices a bulk request of the run has targeted so far
WrittenSoFar == {key[2] : key \in {k \in DOMAIN call_count : k[1] = "bulk"}}

\* C27: a run issues at most one delete call for an index name, and only
\* before the first document for that index is buffered: no index is deleted
\* after a bulk request of the run has targeted it, so the documents an
\* earlier file wrote to an index stay when a later file targets the same
\* index.
C27_DeleteOnlyBeforeFirstWrite ==
    [][/\ \A name \in DeletedIn(calls') :
             /\ CountOf(call_count, <<"delete", name>>) = 0
             /\ CountOf(call_count', <<"delete", name>>) = 1
             /\ name \notin WrittenSoFar
             /\ name \notin BufferedIndices
             /\ name \notin ensured_indices
       /\ \A name \in WrittenSoFar :
             /\ name \in DOMAIN store'
             /\ store'[name] >= store[name]]_vars
\* the second file writes to the index the first file had deleted, created
\* and written to: the document of the first file is still there
C27_Witness ==
    /\ file_pos = 2
    /\ BulkCalls # {}
    /\ CountOf(call_count, <<"delete", Idx2023>>) = 1
    /\ CountOf(call_count, <<"bulk", Idx2023>>) = 2
    /\ store[Idx2023] = 2

\* the rows of the run that reached _ensure_index, and the rows dropped before
RoutedRows == {k \in DOMAIN row_fates : row_fates[k] = "route"}
DroppedRows == DOMAIN row_fates \ RoutedRows
\* the "Import complete" line of the step that ended the run
SummaryLoaded == {logged[i].file : i \in {j \in 1..Len(logged) : logged[j].msg = "import_complete"}}

\* C28: when a run ends in Done, every row that is routable and has at least
\* one present field is carried by exactly one bulk request, every dropped
\* row by none, and the loaded count of the final summary is the number of
\* such rows over all files; in no state of a run has a row been carried
\* by two requests.
C28_ExactlyOnce ==
    /\ \A k \in DOMAIN submit_count : k \in RoutedRows /\ submit_count[k] = 1
    /\ pc = "done" =>
          /\ \A k \in RoutedRows : CountOf(submit_count, k) = 1
          /\ \A k \in DroppedRows : CountOf(submit_count, k) = 0
          /\ loaded_records = Cardinality(RoutedRows)
          /\ SummaryLoaded = {Cardinality(RoutedRows)}
\* a run that ended in Done after one routed row and one row without an index
C28_Witness ==
    /\ pc = "done"
    /\ Cardinality(RoutedRows) = 1
    /\ \E k \in DroppedRows : row_fates[k] = "skip"
    /\ loaded_records = 1
\* a run over two files with one routed row each
C28_WitnessFiles ==
    /\ pc = "done"
    /\ RoutedRows = {<<1, 1>>, <<2, 1>>}
    /\ loaded_records = 2

\* {base}-YYYY or {base}-YYYY-MM
YearName(name) ==
    /\ Len(name) = Len(index_base) + 5
    /\ SubSeq(name, 1, Len(index_base) + 1) = index_base \o <<"-">>
    /\ AllDigits(SubSeq(name, Len(index_base) + 2, Len(index_base) + 5))
YearMonthName(name) ==
    /\ Len(name) = Len(index_base) + 8
    /\ YearName(SubSeq(name, 1, Len(index_base) + 5))
    /\ name[Len(index_base) + 6] = "-"
    /\ AllDigits(SubSeq(name, Len(index_base) + 7, Len(index_base) + 8))
\* the run is an import: neither --status nor --delete-index
Importing == ~args.status /\ ~args.delete_index
\* the indices the run has checked, deleted, created, written to or buffered for
Touched ==
    {k[2] : k \in {c \in CallsMade : c[1] \in {"exists", "delete", "create", "bulk"}}}
       \cup ensured_indices \cup BufferedIndices
\* the step leaves this index of the store as it was
Kept(name) ==
    /\ name \in DOMAIN store <=> name \in DOMAIN store'
    /\ name \in DOMAIN store /\ name \in DOMAIN store' => store'[name] = store[name]

\* C29: every index name the import checks, deletes, creates or writes to is
\* {base}-YYYY or {base}-YYYY-MM and never {base} itself, so an import leaves
\* the index named {base} as it was; the --delete-index mode touches the
\* index named {base} only, so it removes nothing an import with the same
\* --index has written.
C29_ImportNeverTouchesBase ==
    /\ [](Importing => \A name \in Touched :
                          name # index_base /\ (YearName(name) \/ YearMonthName(name)))
    /\ [](~Importing => Touched \subseteq {index_base})
    /\ [][IF Importing THEN Kept(index_base)
          ELSE \A name \in (DOMAIN store \cup DOMAIN store') \ {index_base} : Kept(name)]_vars
\* an import that wrote to a yearly and to a monthly index next to the
\* index named {base}
C29_Witness ==
    /\ Importing
    /\ pc = "done"
    /\ {<<"bulk", Idx2023>>, <<"bulk", Idx202403>>} \subseteq CallsMade
    /\ index_base \in DOMAIN store
    /\ store[index_base] = 3
\* the delete mode removed the index named {base} and kept the yearly one
C29_WitnessDelete ==
    /\ ~Importing
    /\ pc = "returned"
    /\ <<"delete", index_base>> \in CallsMade
    /\ DOMAIN store = {Idx2023}

\* the run has stopped
Stopped == pc \in {"done", "aborted"}
\* the step emits the "Import complete" line
Summarised == \E i \in 1..Len(logged') : logged'[i].msg = "import_complete"

\* C30: over a finite list of files with finitely many rows, with a store
\* that answers every call, import_files eventually stops in Done or in
\* Aborted and then takes no further step; the final summary is emitted
\* exactly once, by the step that enters Done, and never by a run that is
\* aborted.
C30_RunStops ==
    /\ <>Stopped
    /\ [][~Stopped]_vars
    /\ [][Summarised <=> pc' = "done"]_vars
\* a run that stopped in Done after two acknowledged documents
C30_Witness ==
    /\ pc = "done"
    /\ acked_docs = 2
    /\ SummaryLoaded = {2}
\* a run that stopped in Aborted on a failed bulk request in its second file
C30_WitnessAborted ==
    /\ pc = "aborted"
    /\ abort_reason = "bulk"
    /\ file_pos = 2
====
